---- MODULE Spec2Model ----
(***************************************************************************)
(* callerid8/nextlg: the live MTR aggregator of NetworkTest.tsx and the    *)
(* chunked throughput test of SpeedTest.tsx, as state machines.            *)
(*                                                                         *)
(* Numbers.  A JavaScript number that holds a latency is represented by    *)
(* the integer 80 * x (units of 0.0125), so that the token "12.5" is 1000  *)
(* and x / 1000 is the integer division by 1000 for every latency token    *)
(* of the model.  An average or a standard deviation that is no multiple   *)
(* of the unit is truncated.  Sequence numbers, hop numbers and byte       *)
(* counts are plain integers.  LossPercent is kept in hundredths of a      *)
(* percent (10000 = 100 %).                                                *)
(***************************************************************************)
EXTENDS Integers, Sequences, FiniteSets, TLC

VARIABLES
    mtrDataArray,   \* the rows of the session, in array (insertion) order
    rendered,       \* hops of the array React rendered last (queue.lastRenderedState)
    lanes,          \* the component has state updates that wait for a render
    msg,            \* "none", or how the running parseMtrLine updater was dispatched
    eagerNested,    \* inside an eager updater: nested dispatches are still eager
    q1,             \* hops of loss updates queued ahead of the eager updater
    rp,             \* hops of loss updates queued as render-phase updates
    fetches,        \* ASN lookups in flight: <<hop, host>>
    asnCache,       \* hosts with a fresh localStorage entry
    nLines,         \* lines consumed so far
    scenarioA,      \* how many lines of scenario A the session has consumed, -1 once it left it
    accepted,       \* per hop, every sample updateMtrRow pushed, in arrival order
    dupApplied,     \* an x or p line whose sequence number was already recorded has been applied
    session,        \* the request of onSubmit: its stream, isLoading and error
    cut             \* a line of the tool that its pipe delivered in two pieces

mtrVars == <<mtrDataArray, rendered, lanes, msg, eagerNested, q1, rp, fetches,
             asnCache, nLines, scenarioA, accepted, dupApplied, session, cut>>

\* The speed test component (SpeedTest.tsx, Speedtest)
VARIABLES run, testSize, abortController, abortedSignals, timers, runId,
          chunks, chunkQueue, activePromises, totalBytes, completedChunks,
          phaseResult, error, detailedError, isLoading, results, chunkPool,
          previous, elapsed, faulty, testMetrics, chunkSizeOf

xferVars == <<run, testSize, abortController, abortedSignals, timers, runId,
              chunks, chunkQueue, activePromises, totalBytes, completedChunks,
              phaseResult, error, detailedError, isLoading, results,
              chunkPool, previous, elapsed, faulty, testMetrics, chunkSizeOf>>

(***************************************************************************)
(* The route handlers of /api/speedtest/[id] and /api/speedtesttime/[id].  *)
(* chunkCache is the module-level Map of the first route.  gets, firstBody *)
(* and lastBody record, for each id, how many GETs it had and the body of  *)
(* the first and of the latest response; posted is the latest response to  *)
(* a POST.  cmd is the request /api/command answers: its command, the      *)
(* status of the response, the messages enqueued on its stream, whether    *)
(* the stream is closed, and the child process.  microtasks is the queue   *)
(* of createChunk calls the GET handlers of the first route have queued    *)
(* with queueMicrotask and that have not run yet, each with its id.        *)
(***************************************************************************)
VARIABLES chunkCache, gets, firstBody, lastBody, posted, cmd, microtasks

srvVars == <<chunkCache, gets, firstBody, lastBody, posted, cmd, microtasks>>

vars == <<mtrVars, xferVars, srvVars>>

(***************************************************************************)
(* Bounds and program constants                                            *)
(***************************************************************************)
MaxLines == 4

MAX_PACKETS == 100

LOSS_BATCH == 5

Infinity == 1000000000

NaN == -2000000000

NA == "N/A"

(***************************************************************************)
(* Tokens of the probe tool's lines, and what parseInt / parseFloat make   *)
(* of them.  A token is a decimal number (v holds 80 * its value), the     *)
(* text Infinity, or another word (s holds its text).                      *)
(***************************************************************************)
IntTok(n) == [k |-> "num", v |-> 80 * n, s |-> ""]

DecTok(v80) == [k |-> "num", v |-> v80, s |-> ""]

InfTok == [k |-> "inf", v |-> 0, s |-> "Infinity"]

WordTok(text) == [k |-> "word", v |-> 0, s |-> text]

\* parseInt(tok, 10): the integer the token starts with, or NaN
parseInt(tok) ==
    IF tok.k = "num"
    THEN IF tok.v >= 0 THEN tok.v \div 80 ELSE -((-tok.v) \div 80)
    ELSE NaN

\* parseFloat(tok), as a latency (80 * value)
parseFloat(tok) ==
    CASE tok.k = "num" -> tok.v
      [] tok.k = "inf" -> Infinity
      [] OTHER -> NaN

isNaN(v) == v = NaN

\* mutant: the latency is stored as it came, in the unit of the window
Div1000Kept(v) == v

\* x / 1000 on a latency
Div1000(v) == IF v = Infinity THEN Infinity
              ELSE IF v = -Infinity THEN -Infinity
              ELSE v \div 1000

(***************************************************************************)
(* Rows                                                                    *)
(***************************************************************************)
\* mutant: a new row starts with zeros for its statistics
createDefaultMtrRowZeros(hop) ==
    [Hop |-> hop, ASN |-> NA, Prefix |-> NA, Host |-> NA,
     SentPackets |-> <<>>, ReceivedPackets |-> <<>>, Pings |-> <<>>,
     Last |-> 0, Best |-> 0, Worst |-> 0,
     Avg |-> 0, StDev |-> 0, LossPercent |-> 0, isHidden |-> FALSE]

createDefaultMtrRow(hop) ==
    [Hop |-> hop, ASN |-> NA, Prefix |-> NA, Host |-> NA,
     SentPackets |-> <<>>, ReceivedPackets |-> <<>>, Pings |-> <<>>,
     Last |-> Infinity, Best |-> Infinity, Worst |-> -Infinity,
     Avg |-> 0, StDev |-> 0, LossPercent |-> 0, isHidden |-> FALSE]

Includes(s, v) == \E i \in 1..Len(s) : s[i] = v

\* rows.findIndex(row => row.Hop === hop): 0 when there is none
FindIndex(rows, hop) ==
    IF \E i \in 1..Len(rows) : rows[i].Hop = hop
    THEN CHOOSE i \in 1..Len(rows) :
            rows[i].Hop = hop /\ \A j \in 1..(i - 1) : rows[j].Hop # hop
    ELSE 0

HopsOf(rows) == {rows[i].Hop : i \in 1..Len(rows)}

RECURSIVE SumSeq(_)
SumSeq(s) == IF s = <<>> THEN 0 ELSE Head(s) + SumSeq(Tail(s))

RECURSIVE SumSqDev(_, _)
SumSqDev(s, avg) ==
    IF s = <<>> THEN 0
    ELSE (Head(s) - avg) * (Head(s) - avg) + SumSqDev(Tail(s), avg)

RECURSIVE MinSeq(_)
MinSeq(s) == IF Len(s) = 1 THEN s[1]
             ELSE LET m == MinSeq(Tail(s)) IN IF Head(s) < m THEN Head(s) ELSE m

RECURSIVE MaxSeq(_)
MaxSeq(s) == IF Len(s) = 1 THEN s[1]
             ELSE LET m == MaxSeq(Tail(s)) IN IF Head(s) > m THEN Head(s) ELSE m

\* Math.sqrt, truncated: the largest r in lo..hi with r * r <= n
RECURSIVE SqrtIn(_, _, _)
SqrtIn(n, lo, hi) ==
    IF lo >= hi THEN lo
    ELSE LET mid == (lo + hi + 1) \div 2
         IN IF mid * mid <= n THEN SqrtIn(n, mid, hi) ELSE SqrtIn(n, lo, mid - 1)

IsValidPing(p) == p > 0 /\ p # Infinity

calculateStats(pings) ==
    LET validPings == SelectSeq(pings, IsValidPing)
    IN IF Len(validPings) = 0
       THEN [avg |-> 0, min |-> Infinity, max |-> -Infinity, stdev |-> 0]
       ELSE LET avg == SumSeq(validPings) \div Len(validPings)
                variance == SumSqDev(validPings, avg) \div Len(validPings)
                lo == MinSeq(validPings)
                hi == MaxSeq(validPings)
            IN [avg |-> Div1000(avg),
                min |-> Div1000(lo),
                max |-> Div1000(hi),
                stdev |-> Div1000(SqrtIn(variance, 0, hi - lo))]

\* mutant: the newest sample is dropped on overflow (pop for shift)
PushPingPop(pings, lastTime) ==
    LET pushed == Append(pings, lastTime)
    IN IF Len(pushed) > MAX_PACKETS THEN SubSeq(pushed, 1, MAX_PACKETS) ELSE pushed

\* Pings.push(lastTime); if (Pings.length > MAX_PACKETS) Pings.shift()
PushPing(pings, lastTime) ==
    LET pushed == Append(pings, lastTime)
    IN IF Len(pushed) > MAX_PACKETS THEN Tail(pushed) ELSE pushed

\* mutant: the row is rebuilt from the defaults and isHidden is not copied
updateMtrRowRebuilt(row, lastTime) ==
    IF lastTime > 0
    THEN LET pings == PushPing(row.Pings, lastTime)
             stats == calculateStats(pings)
         IN [row EXCEPT !.Pings = pings,
                        !.Last = Div1000(lastTime),
                        !.Avg = stats.avg,
                        !.Best = stats.min,
                        !.Worst = stats.max,
                        !.StDev = stats.stdev,
                        !.isHidden = FALSE]
    ELSE row

\* mutant: best and worst are kept as running extremes of every sample
updateMtrRowRunning(row, lastTime) ==
    IF lastTime > 0
    THEN LET pings == PushPing(row.Pings, lastTime)
             stats == calculateStats(pings)
         IN [row EXCEPT !.Pings = pings,
                        !.Last = Div1000(lastTime),
                        !.Avg = stats.avg,
                        !.Best = IF Div1000(lastTime) < row.Best
                                 THEN Div1000(lastTime) ELSE row.Best,
                        !.Worst = IF Div1000(lastTime) > row.Worst
                                  THEN Div1000(lastTime) ELSE row.Worst,
                        !.StDev = stats.stdev]
    ELSE row

updateMtrRow(row, lastTime) ==
    IF lastTime > 0
    THEN LET pings == PushPing(row.Pings, lastTime)
             stats == calculateStats(pings)
         IN [row EXCEPT !.Pings = pings,
                        !.Last = Div1000(lastTime),
                        !.Avg = stats.avg,
                        !.Best = stats.min,
                        !.Worst = stats.max,
                        !.StDev = stats.stdev]
    ELSE row

\* ((sent - received) / sent) * 100, in hundredths of a percent
LossFormula(sent, received) == ((sent - received) * 10000) \div sent

\* the row as updateLossPercentage's updater leaves it
RecomputeLoss(row) ==
    IF Len(row.SentPackets) = 0
    THEN [row EXCEPT !.LossPercent = 0]
    ELSE [row EXCEPT !.LossPercent =
            LossFormula(Len(row.SentPackets), Len(row.ReceivedPackets))]

(***************************************************************************)
(* Hosts.  host.split(".") of the model's hosts as numbers; Empty is the   *)
(* empty piece that a trailing dot leaves.  The model's hosts are IPv4     *)
(* texts: none holds a colon, so reservedIPv6Regex never matches and the   *)
(* IPv6 branch of handleHostLine is not taken.                             *)
(***************************************************************************)
Empty == -1

Hosts == {"10.0.0.1", "8.8.8.8"}

SplitDots(host) ==
    CASE host = "10.0.0.1" -> <<10, 0, 0, 1>>
      [] host = "8.8.8.8" -> <<8, 8, 8, 8>>
      [] host = "10.0.0." -> <<10, 0, 0, Empty>>
      [] OTHER -> <<>>

\* [0-9]{1,2}
D12(o) == o \in 0..99

\* reservedIPv4Regex.test(host): every alternative ends in "\." and the
\* pattern in "$", but for 255.255.255.255
reservedIPv4(host) ==
    LET o == SplitDots(host)
        n == Len(o)
        dot3 == n = 4 /\ o[4] = Empty
        dot2 == n = 3 /\ o[3] = Empty
    IN \/ dot3 /\ o[1] = 0 /\ o[2] = 0 /\ o[3] = 0
       \/ dot3 /\ o[1] = 10 /\ D12(o[2]) /\ D12(o[3])
       \/ dot3 /\ o[1] = 100 /\ o[2] \in 64..99 /\ D12(o[3])
       \/ dot3 /\ o[1] = 127 /\ D12(o[2]) /\ D12(o[3])
       \/ dot3 /\ o[1] = 169 /\ o[2] = 254 /\ D12(o[3])
       \/ dot3 /\ o[1] = 172 /\ o[2] \in 16..31 /\ D12(o[3])
       \/ dot3 /\ o[1] = 192 /\ o[2] = 0 /\ o[3] \in {0, 2}
       \/ dot2 /\ o[1] = 192 /\ o[2] = 168
       \/ dot2 /\ o[1] = 198 /\ o[2] \in 18..19
       \/ dot3 /\ o[1] = 198 /\ o[2] = 51 /\ o[3] = 100
       \/ dot3 /\ o[1] = 203 /\ o[2] = 0 /\ o[3] = 113
       \/ dot3 /\ o[1] \in 224..239 /\ D12(o[2]) /\ D12(o[3])
       \/ n = 5 /\ o[5] = Empty /\ o[1] = 240 /\ D12(o[2]) /\ D12(o[3]) /\ D12(o[4])
       \/ n = 4 /\ o = <<255, 255, 255, 255>>

\* the ASN and prefix the lookup service answers for a host
DnsAnswer(host) ==
    CASE host = "8.8.8.8" -> [asn |-> "15169", prefix |-> "8.8.8.0/24"]
      [] OTHER -> [asn |-> "64512", prefix |-> "10.0.0.0/24"]

(***************************************************************************)
(* The three line handlers: the row they leave, whether they call          *)
(* updateLossPercentage, whether they start an ASN lookup.                 *)
(***************************************************************************)
Outcome(row, loss, lookup, sample) ==
    [row |-> row, loss |-> loss, lookup |-> lookup, sample |-> sample]

\* mutant: the hop is hidden whenever the hop before it has a record
HiddenFlagAnyPrev(prevHost, host) == prevHost # <<>>

\* host === prevRow?.Host; prevHost is the Host of the row of hop - 1, or <<>>
\* when there is none
HiddenFlag(prevHost, host) == prevHost # <<>> /\ host = prevHost[1]

handleHostLine(currentRow, prevHost, host, cache) ==
    LET row == [currentRow EXCEPT
                    !.Host = host,
                    !.isHidden = HiddenFlag(prevHost, host)]
    IN IF reservedIPv4(host)
       THEN Outcome(row, FALSE, FALSE, FALSE)
       ELSE IF host \in cache
            THEN Outcome([row EXCEPT !.ASN = DnsAnswer(host).asn,
                                     !.Prefix = DnsAnswer(host).prefix],
                         FALSE, FALSE, FALSE)
            ELSE Outcome(row, FALSE, TRUE, FALSE)

handlePingLine(currentRow, lastTime, recPacket) ==
    IF ~isNaN(recPacket) /\ ~isNaN(lastTime) /\ lastTime > 0
       /\ ~Includes(currentRow.ReceivedPackets, recPacket)
    THEN Outcome(updateMtrRow([currentRow EXCEPT
                     !.ReceivedPackets = Append(@, recPacket)], lastTime),
                 TRUE, FALSE, TRUE)
    ELSE Outcome(currentRow, FALSE, FALSE, FALSE)

\* mutant: a sent sequence number is recorded again when it comes again
handleSentPacketLineNoDedup(currentRow, sentPacket) ==
    IF ~isNaN(sentPacket)
    THEN Outcome([currentRow EXCEPT !.SentPackets = Append(@, sentPacket)],
                 (Len(currentRow.SentPackets) + 1) % LOSS_BATCH = 0,
                 FALSE, FALSE)
    ELSE Outcome(currentRow, FALSE, FALSE, FALSE)

handleSentPacketLine(currentRow, sentPacket) ==
    IF ~isNaN(sentPacket) /\ ~Includes(currentRow.SentPackets, sentPacket)
    THEN Outcome([currentRow EXCEPT !.SentPackets = Append(@, sentPacket)],
                 (Len(currentRow.SentPackets) + 1) % LOSS_BATCH = 0,
                 FALSE, FALSE)
    ELSE Outcome(currentRow, FALSE, FALSE, FALSE)

(***************************************************************************)
(* parseMtrLine, one line of its loop.  A line is [type, parts]: its first *)
(* token and the tokens after it.                                          *)
(***************************************************************************)
Line(type, parts) == [type |-> type, parts |-> parts]

\* the line passes the hop checks of parseMtrLine
HasHop(line) ==
    /\ Len(line.parts) >= 1
    /\ ~isNaN(parseInt(line.parts[1]))
    /\ parseInt(line.parts[1]) >= 0

HopOfLine(line) == parseInt(line.parts[1])

\* what the handler of the line's type makes of currentRow
Dispatch(line, currentRow, prevHost, cache) ==
    LET parts == line.parts
    IN CASE line.type = "h" /\ Len(parts) >= 2 ->
              handleHostLine(currentRow, prevHost, parts[2].s, cache)
         [] line.type = "p" /\ Len(parts) >= 3 ->
              handlePingLine(currentRow, parseFloat(parts[2]), parseInt(parts[3]))
         [] line.type = "x" /\ Len(parts) >= 2 ->
              handleSentPacketLine(currentRow, parseInt(parts[2]))
         [] OTHER -> Outcome(currentRow, FALSE, FALSE, FALSE)

\* mutant: the row is pushed whether or not its hop has one
PutRowPushes(rows, row) == Append(rows, row)

\* newRows with the row of its hop replaced, or pushed when there is none
PutRow(rows, row) ==
    LET i == FindIndex(rows, row.Hop)
    IN IF i # 0 THEN [rows EXCEPT ![i] = row] ELSE Append(rows, row)

RowOf(rows, hop) ==
    IF FindIndex(rows, hop) # 0 THEN rows[FindIndex(rows, hop)]
    ELSE createDefaultMtrRow(hop)

PrevHost(rows, hop) ==
    IF FindIndex(rows, hop - 1) # 0 THEN <<rows[FindIndex(rows, hop - 1)].Host>>
    ELSE <<>>

\* updateLossPercentage's updater run on an array that holds the hops `visible`
ApplyLoss(rows, hop, visible) ==
    IF hop \in visible /\ FindIndex(rows, hop) # 0
    THEN PutRow(rows, RecomputeLoss(rows[FindIndex(rows, hop)]))
    ELSE rows

RECURSIVE ApplyLossAll(_, _, _)
ApplyLossAll(rows, hops, visible) ==
    IF hops = {} THEN rows
    ELSE LET h == CHOOSE x \in hops : TRUE
         IN ApplyLossAll(ApplyLoss(rows, h, visible), hops \ {h}, visible)

(***************************************************************************)
(* The session.  handleStreamedResponse hands every output message to      *)
(* setMtrDataArray(prev => parseMtrLine(output, prev)), and the handlers   *)
(* call updateLossPercentage, which is setMtrDataArray(updater) again,     *)
(* from inside that updater.  The rows are objects shared by every copy of *)
(* the array and mutated in place, so what a nested updater does depends   *)
(* on when React runs it and on which array it is handed:                  *)
(*   - dispatched while the component has no pending update, the outer     *)
(*     updater runs at once (eagerly) on the rendered array, and so does   *)
(*     each nested one, until one of them returns a new array; the others  *)
(*     are queued ahead of the outer update and run on the rendered array; *)
(*   - otherwise the outer updater runs in the next render, and the nested *)
(*     ones after it as render-phase updates on the array it returned.     *)
(* Lines of a queued message are applied when it is dispatched: nothing    *)
(* reads the rows between the dispatch and the render.                     *)
(***************************************************************************)
AllHops == {0, 1}

Lines ==
    {Line("h", <<IntTok(h), WordTok(a)>>) : h \in AllHops, a \in Hosts}
    \cup {Line("x", <<IntTok(0), IntTok(q)>>) : q \in {1, 2}}
    \cup {Line("p", <<IntTok(0), DecTok(t), IntTok(q)>>) :
            t \in {1000, 2000}, q \in {1, 2}}
    \cup {Line("p", <<IntTok(0), IntTok(0), IntTok(1)>>),
          Line("p", <<IntTok(1), InfTok, IntTok(2)>>),
          Line("x", <<IntTok(-1), IntTok(1)>>),
          Line("d", <<IntTok(1)>>)}

ScenarioA ==
    <<Line("x", <<IntTok(0), IntTok(1)>>),
      Line("x", <<IntTok(0), IntTok(2)>>),
      Line("p", <<IntTok(0), DecTok(1000), IntTok(1)>>),
      Line("h", <<IntTok(0), WordTok("10.0.0.1")>>)>>

\* no line is cut
NoCut == [state |-> "none", head |-> <<>>, rest |-> <<>>, rows |-> <<>>]

MtrInit ==
    /\ mtrDataArray = <<>>
    /\ rendered = {}
    /\ lanes = FALSE
    /\ msg = "none"
    /\ eagerNested = FALSE
    /\ q1 = {}
    /\ rp = {}
    /\ fetches = {}
    /\ asnCache = {}
    /\ nLines = 0
    /\ scenarioA = 0
    /\ accepted = [h \in AllHops |-> <<>>]
    /\ dupApplied = FALSE
    /\ session = [stream |-> "open", isLoading |-> TRUE, error |-> "",
                  errorMessages |-> 0]
    /\ cut = NoCut

\* setMtrDataArray(prev => parseMtrLine(data.output, prev)) of one message
Dispatched(mode) ==
    /\ session.stream = "open"
    /\ msg = "none"
    /\ mode = "eager" => ~lanes
    /\ msg' = mode
    /\ eagerNested' = (mode = "eager")
    /\ lanes' = (lanes \/ mode = "queued")
    /\ UNCHANGED <<mtrDataArray, rendered, q1, rp, fetches, asnCache, nLines,
                   scenarioA, accepted, dupApplied>>
    /\ UNCHANGED <<session, xferVars, srvVars>>

\* a message that begins with a whole line
BeginMessage(mode) == Dispatched(mode) /\ UNCHANGED cut

\* the line is an x or a p line whose sequence number its hop has recorded
DuplicateSeq(line, rows) ==
    /\ HasHop(line)
    /\ \/ /\ line.type = "x" /\ Len(line.parts) >= 2
          /\ Includes(RowOf(rows, HopOfLine(line)).SentPackets, parseInt(line.parts[2]))
       \/ /\ line.type = "p" /\ Len(line.parts) >= 3
          /\ Includes(RowOf(rows, HopOfLine(line)).ReceivedPackets,
                      parseInt(line.parts[3]))

\* one turn of the loop of parseMtrLine
LoopTurn(line) ==
    /\ msg # "none"
    /\ dupApplied' = (dupApplied \/ DuplicateSeq(line, mtrDataArray))
    /\ nLines' = nLines + 1
    /\ scenarioA' = IF scenarioA >= 0 /\ scenarioA < Len(ScenarioA)
                       /\ line = ScenarioA[scenarioA + 1]
                    THEN scenarioA + 1 ELSE -1
    /\ IF ~HasHop(line)
       THEN UNCHANGED <<mtrDataArray, eagerNested, q1, rp, fetches, accepted>>
       ELSE LET hop == HopOfLine(line)
                out == Dispatch(line, RowOf(mtrDataArray, hop),
                                PrevHost(mtrDataArray, hop), asnCache)
                newRows == PutRow(mtrDataArray, out.row)
                now == out.loss /\ msg = "eager" /\ eagerNested
            IN /\ mtrDataArray' = IF now THEN ApplyLoss(newRows, hop, rendered)
                                  ELSE newRows
               /\ eagerNested' = IF now /\ hop \in rendered
                                    /\ Len(out.row.SentPackets) = 0
                                 THEN FALSE ELSE eagerNested
               /\ q1' = IF out.loss /\ msg = "eager" /\ ~eagerNested
                        THEN q1 \cup {hop} ELSE q1
               /\ rp' = IF out.loss /\ msg = "queued" THEN rp \cup {hop} ELSE rp
               /\ fetches' = IF out.lookup THEN fetches \cup {<<hop, out.row.Host>>}
                             ELSE fetches
               /\ accepted' = IF out.sample
                              THEN [accepted EXCEPT ![hop] =
                                      Append(@, parseFloat(line.parts[2]))]
                              ELSE accepted
    /\ UNCHANGED <<rendered, lanes, msg, asnCache>>
    /\ UNCHANGED <<session, xferVars, srvVars>>

\* the turn of a line that came whole
ParseLine(line) == LoopTurn(line) /\ UNCHANGED cut

\* parseMtrLine returns; the updates queued ahead of an eager updater run on
\* the rendered array
EndMessage ==
    /\ msg # "none"
    /\ mtrDataArray' = IF msg = "eager"
                       THEN ApplyLossAll(mtrDataArray, q1, rendered)
                       ELSE mtrDataArray
    /\ q1' = {}
    /\ msg' = "none"
    /\ eagerNested' = FALSE
    /\ lanes' = TRUE
    /\ UNCHANGED <<rendered, rp, fetches, asnCache, nLines, scenarioA, accepted,
                   dupApplied>>
    /\ UNCHANGED <<session, cut, xferVars, srvVars>>

\* React renders the component: the render-phase updates run on the new array
Render ==
    /\ msg = "none"
    /\ lanes
    /\ mtrDataArray' = ApplyLossAll(mtrDataArray, rp, HopsOf(mtrDataArray))
    /\ rp' = {}
    /\ rendered' = HopsOf(mtrDataArray)
    /\ lanes' = FALSE
    /\ UNCHANGED <<msg, eagerNested, q1, fetches, asnCache, nLines, scenarioA,
                   accepted, dupApplied>>
    /\ UNCHANGED <<session, cut, xferVars, srvVars>>

\* fetchASN's request settles: with an answer it writes the row and the cache
AsnSettled(f, answered) ==
    /\ msg = "none"
    /\ f \in fetches
    /\ fetches' = fetches \ {f}
    /\ IF answered
       THEN /\ mtrDataArray' =
                 PutRow(mtrDataArray,
                        [RowOf(mtrDataArray, f[1]) EXCEPT
                            !.ASN = DnsAnswer(f[2]).asn,
                            !.Prefix = DnsAnswer(f[2]).prefix])
            /\ asnCache' = asnCache \cup {f[2]}
       ELSE UNCHANGED <<mtrDataArray, asnCache>>
    /\ UNCHANGED <<rendered, lanes, msg, eagerNested, q1, rp, nLines, scenarioA,
                   accepted, dupApplied>>
    /\ UNCHANGED <<session, cut, xferVars, srvVars>>

RECURSIVE InsertByHop(_, _)

\* row put into a sorted array behind every row that does not compare greater
InsertByHop(sorted, row) ==
    IF sorted = <<>> THEN <<row>>
    ELSE IF Head(sorted).Hop - row.Hop > 0 THEN <<row>> \o sorted
    ELSE <<Head(sorted)>> \o InsertByHop(Tail(sorted), row)

RECURSIVE SortByHop(_)

\* [...rows].sort((a, b) => a.Hop - b.Hop), a stable sort
SortByHop(rows) ==
    IF rows = <<>> THEN <<>>
    ELSE InsertByHop(SortByHop(SubSeq(rows, 1, Len(rows) - 1)), rows[Len(rows)])

\* the rows the table is given
sortedMtrData == SortByHop(mtrDataArray)

MtrNext ==
    \/ \E mode \in {"eager", "queued"} : BeginMessage(mode)
    \/ \E line \in Lines : nLines < MaxLines /\ ParseLine(line)
    \/ EndMessage
    \/ Render
    \/ \E f \in fetches, answered \in BOOLEAN : AsnSettled(f, answered)

(***************************************************************************)
(* The end of the stream.  handleStreamedResponse reads until done; a      *)
(* message of a live session that carries neither type system_info nor an  *)
(* output field (the server's {error: ...}) passes both branches; a        *)
(* rejected read leaves the loop as an exception that onSubmit catches.    *)
(* setIsLoading(false) in the finally of onSubmit leaves an update pending.*)
(***************************************************************************)
NetworkError == "Network error. Please try again later."

\* a message {error: ...} arrives in a live session
ErrorMessage ==
    /\ session.stream = "open"
    /\ msg = "none"
    /\ session.errorMessages < 1
    /\ session' = [session EXCEPT !.errorMessages = @ + 1]
    /\ UNCHANGED <<mtrDataArray, rendered, lanes, msg, eagerNested, q1, rp,
                   fetches, asnCache, nLines, scenarioA, accepted, dupApplied>>
    /\ UNCHANGED <<cut, xferVars, srvVars>>

\* reader.read() answers done
StreamDone ==
    /\ session.stream = "open"
    /\ msg = "none"
    /\ session' = [session EXCEPT !.stream = "closed", !.isLoading = FALSE]
    /\ lanes' = TRUE
    /\ UNCHANGED <<mtrDataArray, rendered, msg, eagerNested, q1, rp,
                   fetches, asnCache, nLines, scenarioA, accepted, dupApplied>>
    /\ UNCHANGED <<cut, xferVars, srvVars>>

\* mutant: the catch of onSubmit empties the table
TransportErrorClears ==
    /\ session.stream = "open"
    /\ msg = "none"
    /\ session' = [session EXCEPT !.stream = "closed", !.isLoading = FALSE,
                                  !.error = NetworkError]
    /\ lanes' = TRUE
    /\ mtrDataArray' = <<>>
    /\ UNCHANGED <<rendered, msg, eagerNested, q1, rp,
                   fetches, asnCache, nLines, scenarioA, accepted, dupApplied>>
    /\ UNCHANGED <<cut, xferVars, srvVars>>

\* reader.read() rejects
TransportError ==
    /\ session.stream = "open"
    /\ msg = "none"
    /\ session' = [session EXCEPT !.stream = "closed", !.isLoading = FALSE,
                                  !.error = NetworkError]
    /\ lanes' = TRUE
    /\ UNCHANGED <<mtrDataArray, rendered, msg, eagerNested, q1, rp,
                   fetches, asnCache, nLines, scenarioA, accepted, dupApplied>>
    /\ UNCHANGED <<cut, xferVars, srvVars>>

\* the lines of the sessions that end
SessionLines ==
    {Line("h", <<IntTok(0), WordTok("8.8.8.8")>>),
     Line("x", <<IntTok(0), IntTok(1)>>),
     Line("p", <<IntTok(0), DecTok(1000), IntTok(1)>>),
     Line("p", <<IntTok(1), DecTok(2000), IntTok(1)>>)}

SessionNext ==
    \/ \E mode \in {"eager", "queued"} : BeginMessage(mode)
    \/ \E line \in SessionLines : nLines < MaxLines /\ ParseLine(line)
    \/ EndMessage
    \/ Render
    \/ \E f \in fetches, answered \in BOOLEAN : AsnSettled(f, answered)
    \/ ErrorMessage
    \/ StreamDone
    \/ TransportError

(***************************************************************************)
(* A line cut by the pipe.  The server of /api/command sends every data    *)
(* event of the tool's stdout as one message {output: data.toString()},    *)
(* and a data event ends where the read of the pipe ended: a line of the   *)
(* tool may come with its first tokens at the end of one message and the   *)
(* others at the start of the next.  parseMtrLine takes each piece for a   *)
(* line.  A text is the sequence of the tokens of a line, its type first;  *)
(* cut holds the pieces, the rows there were before the first piece, and   *)
(* how far the pieces have come: head (the first is applied), rest (the    *)
(* message of the second is dispatched), applied.                          *)
(***************************************************************************)
\* the text of a token as a line type: a number is no type parseMtrLine knows
TypeOf(tok) == IF tok.k = "word" THEN tok.s ELSE "0"

\* const [type, ...parts] = singleLine.split(/\s+/).filter(Boolean)
LineOf(text) == Line(TypeOf(Head(text)), Tail(text))

\* the lines that come cut: a reply, a sent probe and a host of hop 0
CutTexts ==
    {<<WordTok("p"), IntTok(0), DecTok(1000), IntTok(1)>>,
     <<WordTok("x"), IntTok(0), IntTok(1)>>,
     <<WordTok("h"), IntTok(0), WordTok("8.8.8.8")>>}

\* the first k tokens of a line are the last line of the running message
ParseHead(text, k) ==
    /\ cut.state = "none"
    /\ LoopTurn(LineOf(SubSeq(text, 1, k)))
    /\ cut' = [state |-> "head", head |-> SubSeq(text, 1, k),
               rest |-> SubSeq(text, k + 1, Len(text)),
               rows |-> mtrDataArray]

\* the next message is dispatched: it begins with the rest of the line
BeginCut(mode) ==
    /\ cut.state = "head"
    /\ Dispatched(mode)
    /\ cut' = [cut EXCEPT !.state = "rest"]

\* the rest of the line is the first line of its message
ParseRest ==
    /\ cut.state = "rest"
    /\ LoopTurn(LineOf(cut.rest))
    /\ cut' = [cut EXCEPT !.state = "applied"]

\* a live session in which one line comes cut
CutNext ==
    \/ \E mode \in {"eager", "queued"} : cut.state # "head" /\ BeginMessage(mode)
    \/ \E line \in SessionLines :
          /\ cut.state \in {"none", "applied"}
          /\ nLines < MaxLines
          /\ ParseLine(line)
    \/ \E text \in CutTexts, k \in 1..3 :
          /\ k < Len(text)
          /\ nLines < MaxLines
          /\ ParseHead(text, k)
    \/ EndMessage
    \/ Render
    \/ \E f \in fetches, answered \in BOOLEAN : AsnSettled(f, answered)
    \/ \E mode \in {"eager", "queued"} : BeginCut(mode)
    \/ ParseRest

(***************************************************************************)
(* The speed test.  One run of runSpeedTest is a download phase and then   *)
(* an upload phase; each phase is one call of runTest.  The state of the   *)
(* component is gathered in a record so that what one task does, through   *)
(* the promise reactions that follow it, is one function of the state.     *)
(* A chunk is [st, retryCount, issued, failures, started, sig]: st is       *)
(* queued, fetch (a request is out), wait (the backoff timer runs), done   *)
(* or failed; issued counts the calls of fetch, failures those that ended  *)
(* in the catch, started the calls of the chunk handler by runTest; sig    *)
(* tells whether the request carries the signal of the run's               *)
(* AbortController.  Chunk c of a phase is chunks[phase][c + 1].           *)
(* The AbortController of run k is k: abortController is the one the ref   *)
(* holds (0 for null), abortedSignals those whose signal is aborted, and   *)
(* sig of a chunk the one whose signal its request carries (0 for none).   *)
(* timers holds the runs whose timeout timer is armed.  previous holds     *)
(* the locals of an earlier call of runSpeedTest that still has transfers. *)
(***************************************************************************)
CHUNK_SIZE == 4 * 1024 * 1024

TEST_SIZES ==
    [SMALL  |-> [download |-> 16 * 1024 * 1024, upload |-> 8 * 1024 * 1024],
     MEDIUM |-> [download |-> 64 * 1024 * 1024, upload |-> 16 * 1024 * 1024],
     LARGE  |-> [download |-> 128 * 1024 * 1024, upload |-> 32 * 1024 * 1024]]

CONCURRENT_REQUESTS == 8

\* SpeedTestTime.tsx: the chunk size a phase starts with
INITIAL_CHUNK_SIZE == 2 * 1024 * 1024

MAX_RETRIES == 3

UPLOAD_CHUNK_POOL_SIZE == 4

\* the network fails the requests of at most this many chunks in one
\* behaviour
MaxFaulty == 1

\* where the answers come out of order: a request is answered while fewer
\* than this many older requests of its phase are still out
MaxOvertake == 7

\* the sizes the user selects in the model
Sizes == {"SMALL", "MEDIUM"}

Phases == {"download", "upload"}

DownloadFailed == "Download test failed. Please try again."

UploadFailed == "Upload test failed. Please try again."

TimedOut == "Test timed out. Please check your connection and try again."

Cur ==
    [run |-> run, id |-> runId, testSize |-> testSize,
     abortController |-> abortController, abortedSignals |-> abortedSignals,
     timers |-> timers, detailedError |-> detailedError,
     chunks |-> chunks, chunkQueue |-> chunkQueue,
     activePromises |-> activePromises, totalBytes |-> totalBytes,
     completedChunks |-> completedChunks, phaseResult |-> phaseResult,
     error |-> error, isLoading |-> isLoading, results |-> results,
     chunkPool |-> chunkPool, previous |-> previous, elapsed |-> elapsed,
     testMetrics |-> testMetrics, chunkSizeOf |-> chunkSizeOf]

\* the record is computed once, then written to the variables
SetXfer(s) ==
    \E t \in {s} :
        /\ run' = t.run
        /\ testSize' = t.testSize
        /\ runId' = t.id
        /\ abortController' = t.abortController
        /\ abortedSignals' = t.abortedSignals
        /\ timers' = t.timers
        /\ detailedError' = t.detailedError
        /\ chunks' = t.chunks
        /\ chunkQueue' = t.chunkQueue
        /\ activePromises' = t.activePromises
        /\ totalBytes' = t.totalBytes
        /\ completedChunks' = t.completedChunks
        /\ phaseResult' = t.phaseResult
        /\ error' = t.error
        /\ isLoading' = t.isLoading
        /\ results' = t.results
        /\ chunkPool' = t.chunkPool
        /\ previous' = t.previous
        /\ elapsed' = t.elapsed
        /\ testMetrics' = t.testMetrics
        /\ chunkSizeOf' = t.chunkSizeOf

\* mutant: Math.floor(size / CHUNK_SIZE) + 1
TOTAL_CHUNKS_FloorPlusOne(size) == size \div CHUNK_SIZE + 1

\* Math.ceil(size / CHUNK_SIZE)
TOTAL_CHUNKS(size) == (size + CHUNK_SIZE - 1) \div CHUNK_SIZE

NewChunk ==
    [st |-> "queued", retryCount |-> 0, issued |-> 0, failures |-> 0,
     started |-> 0, sig |-> 0, bufs |-> <<>>]

\* abortControllerRef.current?.signal.aborted
Aborted(s) == s.abortController \in s.abortedSignals

\* mutant: one retry more
ShouldRetryOnceMore(retryCount, aborted) ==
    retryCount <= MAX_RETRIES /\ ~aborted

\* retryCount < MAX_RETRIES && !abortControllerRef.current?.signal.aborted
ShouldRetry(retryCount, aborted) == retryCount < MAX_RETRIES /\ ~aborted

\* A buffer (a Uint8Array) is a number; chunkPool is the array of the
\* buffers in the pool, and bufs of a chunk the buffers the frames of its
\* handler hold, the oldest frame first.
Elements(q) == {q[i] : i \in DOMAIN q}

\* the buffers the chunk handlers of a call hold
HeldIn(cs) ==
    UNION {UNION {Elements(cs[ph][i].bufs) : i \in DOMAIN cs[ph]} :
              ph \in Phases}

\* the buffers the handlers of the running call and of the earlier one hold
Held(s) == HeldIn(s.chunks) \cup HeldIn(s.previous.chunks)

\* F of the value s, with s worked out once
Once(F(_), s) == CHOOSE r \in {F(t) : t \in {s}} : TRUE

\* Array(n).fill(null).map(() => new Uint8Array(size)): n buffers that are
\* none of those in use, the lowest numbers that are free
FreshBuffers(used, n) ==
    LET Lowest(free) ==
            [i \in 1..n |->
                CHOOSE b \in free : Cardinality({a \in free : a < b}) = i - 1]
    IN Once(Lowest, (1..(Cardinality(used) + n)) \ used)

\* new Uint8Array(size): a buffer that is none of those in use
FreshBuffer(used) == FreshBuffers(used, 1)[1]

\* mutant: createUploadChunk hands out the last buffer of the pool and
\* leaves it there
TakeChunkPeeks(s, ph, c) ==
    IF ph # "upload" THEN s
    ELSE IF s.chunkPool # <<>>
         THEN [s EXCEPT !.chunks[ph][c + 1].bufs =
                            Append(@, s.chunkPool[Len(s.chunkPool)])]
         ELSE [s EXCEPT !.chunks[ph][c + 1].bufs =
                            Append(@, FreshBuffer(Elements(s.chunkPool)
                                                    \cup Held(s)))]

\* createUploadChunk: the last buffer of the pool if there is one (pop), a
\* new one else
TakeChunk(s, ph, c) ==
    LET Take(t) ==
            IF t.chunkPool # <<>>
            THEN [t EXCEPT !.chunkPool = SubSeq(@, 1, Len(@) - 1),
                           !.chunks[ph][c + 1].bufs =
                               Append(@, t.chunkPool[Len(t.chunkPool)])]
            ELSE [t EXCEPT !.chunks[ph][c + 1].bufs =
                               Append(@, FreshBuffer(Elements(t.chunkPool)
                                                       \cup Held(t)))]
    IN IF ph # "upload" THEN s ELSE Once(Take, s)

\* finally of uploadChunk, of the oldest frame of the chunk: its buffer goes
\* back if the pool has room
ReturnChunk(s, ph, c) ==
    LET Return(t) ==
            IF t.chunks[ph][c + 1].bufs = <<>> THEN t
            ELSE [t EXCEPT !.chunks[ph][c + 1].bufs = Tail(@),
                           !.chunkPool =
                               IF Len(@) < UPLOAD_CHUNK_POOL_SIZE
                               THEN Append(@, Head(t.chunks[ph][c + 1].bufs))
                               ELSE @]
    IN IF ph # "upload" THEN s ELSE Once(Return, s)

\* downloadChunk / uploadChunk (chunkId, retryCount) up to its fetch.  A
\* fetch with an aborted signal rejects at once, and the catch rethrows.
chunkHandler(s, ph, c, retryCount) ==
    LET s1 == TakeChunk(s, ph, c)
        ch == [s1.chunks[ph][c + 1] EXCEPT
                   !.retryCount = retryCount,
                   !.issued = @ + 1,
                   !.sig = s.abortController]
    IN IF Aborted(s)
       THEN ReturnChunk([s1 EXCEPT !.chunks[ph][c + 1] =
                                       [ch EXCEPT !.st = "failed",
                                                  !.failures = @ + 1]], ph, c)
       ELSE [s1 EXCEPT !.chunks[ph][c + 1] = [ch EXCEPT !.st = "fetch"]]

\* runSpeedTest's finally
Finish(s) ==
    [s EXCEPT !.timers = @ \ {s.id},
              !.isLoading = FALSE,
              !.abortController = 0,
              !.run = "done"]

\* Array.from({ length: TOTAL_CHUNKS }, (_, i) => i)
Range(n) == [i \in 1..n |-> i - 1]

\* runTest's locals at its start
StartPhase(s, ph) ==
    LET n == TOTAL_CHUNKS(TEST_SIZES[s.testSize][ph])
    IN [s EXCEPT !.run = ph,
                 !.phaseResult[ph] = "running",
                 !.chunks[ph] = [i \in 1..n |-> NewChunk],
                 !.chunkQueue[ph] = Range(n),
                 !.activePromises[ph] = {},
                 !.totalBytes[ph] = 0,
                 !.completedChunks[ph] = 0]

\* mutant: the inner loop admits one request more
CanStartOneMore(s, ph) ==
    /\ s.chunkQueue[ph] # <<>>
    /\ Cardinality(s.activePromises[ph]) <= CONCURRENT_REQUESTS

\* chunkQueue.length > 0 && activePromises.size < CONCURRENT_REQUESTS
CanStart(s, ph) ==
    /\ s.chunkQueue[ph] # <<>>
    /\ Cardinality(s.activePromises[ph]) < CONCURRENT_REQUESTS

RECURSIVE runTest(_, _)

RECURSIVE PhaseEnd(_, _, _)

\* runTest from the head of its outer loop: the inner loop starts chunks,
\* then the function awaits the race of the active promises, or returns.
\* The promises that rejected at once leave the set and reject the race.
runTest(s, ph) ==
    IF CanStart(s, ph)
    THEN LET c == Head(s.chunkQueue[ph])
             s1 == [s EXCEPT !.chunkQueue[ph] = Tail(@),
                             !.activePromises[ph] = @ \cup {c},
                             !.chunks[ph][c + 1].started = @ + 1]
         IN runTest(chunkHandler(s1, ph, c, 0), ph)
    ELSE LET dead == {c \in s.activePromises[ph] :
                          s.chunks[ph][c + 1].st = "failed"}
         IN IF dead # {}
            THEN PhaseEnd([s EXCEPT !.activePromises[ph] = @ \ dead], ph, FALSE)
            ELSE IF s.chunkQueue[ph] = <<>> /\ s.activePromises[ph] = {}
                 THEN PhaseEnd(s, ph, TRUE)
                 ELSE s

\* runUploadTest up to the await of runTest
runUploadTest(s) ==
    LET Pool(t) == [t EXCEPT !.chunkPool =
                                 FreshBuffers(Held(t), UPLOAD_CHUNK_POOL_SIZE)]
    IN runTest(Once(Pool, StartPhase(s, "upload")), "upload")

\* runDownloadTest up to the await of runTest
runDownloadTest(s) == runTest(StartPhase(s, "download"), "download")

\* runTest has returned (ok) or thrown: the rest of runDownloadTest or
\* runUploadTest, and of runSpeedTest after it
PhaseEnd(s, ph, ok) ==
    LET s1 == [s EXCEPT
                  !.phaseResult[ph] = IF ok THEN "resolved" ELSE "rejected",
                  !.results = IF ok THEN @ \cup {ph} ELSE @,
                  !.error = IF ok \/ Aborted(s) THEN @
                            ELSE IF ph = "download" THEN DownloadFailed
                            ELSE UploadFailed,
                  !.detailedError = IF ok \/ Aborted(s) \/ ph = "download"
                                    THEN @ ELSE "network"]
    IN IF ph = "download"
       THEN runUploadTest(s1)
       ELSE Finish([s1 EXCEPT !.chunkPool = <<>>])

\* mutant: a chunk that failed for good leaves the loop running
AfterSettleGoesOn(s, ph, ok) == runTest(s, ph)

\* mutant: after a fulfilled chunk the loop awaits the race again although
\* no promise is active, and a race of no promises never settles
AfterSettleAwaitsRace(s, ph, ok) ==
    IF ok
    THEN IF s.activePromises[ph] = {} THEN s ELSE runTest(s, ph)
    ELSE PhaseEnd(s, ph, FALSE)

\* the reaction of runTest to a settled chunk promise: the race resolves and
\* the loop goes on, or it rejects and runTest throws
AfterSettle(s, ph, ok) ==
    IF ok THEN runTest(s, ph) ELSE PhaseEnd(s, ph, FALSE)

\* mutant: the bytes of a chunk are added when its promise settles, also
\* when it rejects
ChunkSettledCountsAll(s, ph, c, ok) ==
    LET s1 == [s EXCEPT
                  !.activePromises[ph] = @ \ {c},
                  !.totalBytes[ph] = @ + CHUNK_SIZE,
                  !.completedChunks[ph] = IF ok THEN @ + 1 ELSE @]
    IN IF s.phaseResult[ph] = "running"
       THEN AfterSettle(s1, ph, ok)
       ELSE s1

\* the then / catch attached by runTest to the promise of chunk c, and what
\* follows while the phase still awaits
ChunkSettled(s, ph, c, ok) ==
    LET s1 == [s EXCEPT
                  !.activePromises[ph] = @ \ {c},
                  !.totalBytes[ph] = IF ok THEN @ + CHUNK_SIZE ELSE @,
                  !.completedChunks[ph] = IF ok THEN @ + 1 ELSE @]
    IN IF s.phaseResult[ph] = "running"
       THEN AfterSettle(s1, ph, ok)
       ELSE s1

\* the locals of a call of runSpeedTest and of the calls of runTest in it
LocalsOf(s) ==
    [run |-> s.run, id |-> s.id, chunks |-> s.chunks,
     chunkQueue |-> s.chunkQueue, activePromises |-> s.activePromises,
     totalBytes |-> s.totalBytes, completedChunks |-> s.completedChunks,
     phaseResult |-> s.phaseResult]

\* no call of runSpeedTest
NoRun ==
    [run |-> "idle", id |-> 0,
     chunks |-> [ph \in Phases |-> <<>>],
     chunkQueue |-> [ph \in Phases |-> <<>>],
     activePromises |-> [ph \in Phases |-> {}],
     totalBytes |-> [ph \in Phases |-> 0],
     completedChunks |-> [ph \in Phases |-> 0],
     phaseResult |-> [ph \in Phases |-> "none"]]

WithLocals(s, l) ==
    [s EXCEPT !.run = l.run, !.id = l.id, !.chunks = l.chunks,
              !.chunkQueue = l.chunkQueue,
              !.activePromises = l.activePromises,
              !.totalBytes = l.totalBytes,
              !.completedChunks = l.completedChunks,
              !.phaseResult = l.phaseResult]

\* the component as the earlier call sees it: its own locals, and the
\* state and refs of the component, which all calls share
SwapRuns(s) == [WithLocals(s, s.previous) EXCEPT !.previous = LocalsOf(s)]

\* the component after its first render
XferInit ==
    /\ run = "idle"
    /\ testSize = "MEDIUM"
    /\ abortController = 0
    /\ abortedSignals = {}
    /\ timers = {}
    /\ runId = 0
    /\ detailedError = "none"
    /\ chunks = [ph \in Phases |-> <<>>]
    /\ chunkQueue = [ph \in Phases |-> <<>>]
    /\ activePromises = [ph \in Phases |-> {}]
    /\ totalBytes = [ph \in Phases |-> 0]
    /\ completedChunks = [ph \in Phases |-> 0]
    /\ phaseResult = [ph \in Phases |-> "none"]
    /\ error = ""
    /\ isLoading = FALSE
    /\ results = {}
    /\ chunkPool = <<>>
    /\ previous = NoRun
    /\ elapsed = {}
    /\ faulty = {}
    /\ testMetrics = [bytesTransferred |-> 0]
    /\ chunkSizeOf = [ph \in Phases |-> INITIAL_CHUNK_SIZE]

HasChunk(ph, c) == c + 1 \in DOMAIN chunks[ph]

\* the Select's onValueChange; the control is disabled while isLoading
setTestSize(size) ==
    /\ run = "idle"
    /\ ~isLoading
    /\ testSize' = size
    /\ UNCHANGED <<run, abortController, abortedSignals, timers, runId,
                   chunks, chunkQueue, activePromises, totalBytes,
                   completedChunks, phaseResult, error, detailedError,
                   isLoading, results, chunkPool, previous, elapsed, faulty,
                   testMetrics, chunkSizeOf>>
    /\ UNCHANGED <<mtrVars, srvVars>>

\* the button's onClick, up to the first await of runTest.  The model
\* follows one run of the component.
runSpeedTest ==
    /\ run = "idle"
    /\ ~isLoading
    /\ SetXfer(runDownloadTest([Cur EXCEPT !.id = runId + 1,
                                           !.abortController = runId + 1,
                                           !.timers = @ \cup {runId + 1},
                                           !.isLoading = TRUE,
                                           !.error = "",
                                           !.detailedError = "none",
                                           !.results = {}]))
    /\ UNCHANGED faulty
    /\ UNCHANGED <<mtrVars, srvVars>>

\* the requests of the phase older than that of chunk c and still out
Overtaken(ph, c) ==
    Cardinality({d \in 0..(c - 1) :
                    HasChunk(ph, d) /\ chunks[ph][d + 1].st = "fetch"})

\* the request of chunk c answers with response.ok
ChunkOk(ph, c) ==
    /\ HasChunk(ph, c)
    /\ chunks[ph][c + 1].st = "fetch"
    /\ SetXfer(ChunkSettled(
                   ReturnChunk([Cur EXCEPT !.chunks[ph][c + 1].st = "done"], ph, c),
                   ph, c, TRUE))
    /\ UNCHANGED faulty
    /\ UNCHANGED <<mtrVars, srvVars>>

\* the request of chunk c fails (a network error, or a response not ok):
\* the catch of the chunk handler
ChunkError(ph, c) ==
    /\ HasChunk(ph, c)
    /\ chunks[ph][c + 1].st = "fetch"
    /\ <<ph, c>> \in faulty \/ Cardinality(faulty) < MaxFaulty
    /\ faulty' = faulty \cup {<<ph, c>>}
    /\ IF ShouldRetry(chunks[ph][c + 1].retryCount, Aborted(Cur))
       THEN SetXfer([Cur EXCEPT !.chunks[ph][c + 1].st = "wait",
                                !.chunks[ph][c + 1].failures = @ + 1])
       ELSE SetXfer(ChunkSettled(
                        ReturnChunk([Cur EXCEPT
                                        !.chunks[ph][c + 1].st = "failed",
                                        !.chunks[ph][c + 1].failures = @ + 1],
                                    ph, c),
                        ph, c, FALSE))
    /\ UNCHANGED <<mtrVars, srvVars>>

\* the backoff timer of chunk c fires: the handler calls itself with
\* retryCount + 1, and the frame that waited runs its finally
BackoffElapsed(ph, c) ==
    /\ HasChunk(ph, c)
    /\ chunks[ph][c + 1].st = "wait"
    /\ LET s1 == ReturnChunk(
                     chunkHandler(Cur, ph, c, chunks[ph][c + 1].retryCount + 1),
                     ph, c)
       IN IF s1.chunks[ph][c + 1].st = "failed"
          THEN SetXfer(ChunkSettled(s1, ph, c, FALSE))
          ELSE SetXfer(s1)
    /\ UNCHANGED faulty
    /\ UNCHANGED <<mtrVars, srvVars>>

\* the requests that carry a signal that is aborted
Signalled(s, ph) ==
    {c \in 0..(Len(s.chunks[ph]) - 1) :
        /\ s.chunks[ph][c + 1].st = "fetch"
        /\ s.chunks[ph][c + 1].sig \in s.abortedSignals}

RECURSIVE ReturnChunks(_, _, _)

\* the finally of the handlers of the chunks cs, the lowest index first
ReturnChunks(s, ph, cs) ==
    IF cs = {} THEN s
    ELSE LET c == CHOOSE x \in cs : \A y \in cs : x <= y
         IN ReturnChunks(ReturnChunk(s, ph, c), ph, cs \ {c})

\* the requests of a phase reject with the abort, and their handlers
\* rethrow: the signal is aborted
AbortPhase(s, ph) ==
    LET hit == Signalled(s, ph)
        s1 == [s EXCEPT
                  !.chunks[ph] = [i \in DOMAIN @ |->
                                    IF i - 1 \in hit
                                    THEN [@[i] EXCEPT !.st = "failed",
                                                      !.failures = @ + 1]
                                    ELSE @[i]],
                  !.activePromises[ph] = @ \ hit]
    IN ReturnChunks(s1, ph, hit)

\* the requests of a call that carry an aborted signal reject, and the
\* call unwinds when they belong to the phase it awaits
AbortRun(s) ==
    LET s1 == AbortPhase(AbortPhase(s, "download"), "upload")
    IN IF s.run \in Phases /\ Signalled(s, s.run) # {}
       THEN PhaseEnd(s1, s.run, FALSE)
       ELSE s1

\* the timer set by runSpeedTest fires before its finally clears it
handleTimeout ==
    /\ runId \in timers
    /\ LET s0 == [Cur EXCEPT !.timers = @ \ {runId},
                             !.abortedSignals = @ \cup ({abortController} \ {0}),
                             !.error = TimedOut,
                             !.detailedError = "timeout",
                             !.isLoading = FALSE]
       IN SetXfer(SwapRuns(AbortRun(SwapRuns(AbortRun(s0)))))
    /\ UNCHANGED faulty
    /\ UNCHANGED <<mtrVars, srvVars>>

\* the chunk indices of the sizes of the model
ChunkIds == 0..(TOTAL_CHUNKS(TEST_SIZES["MEDIUM"]["download"]) - 1)

(***************************************************************************)
(* A later click on the button.  The button is enabled whenever isLoading  *)
(* is false, which handleTimeout makes it while the call of runSpeedTest   *)
(* it interrupts may still wait for backoff timers or for its requests.    *)
(* The model follows MaxRuns calls, the later ones for the SMALL size, and *)
(* a new one starts only when at most one earlier call still has           *)
(* transfers.                                                              *)
(***************************************************************************)
MaxRuns == 2

\* a call that awaits nothing and has no request out and no timer running
Dead(l) ==
    /\ l.run \in {"idle", "done"}
    /\ \A ph \in Phases : \A i \in DOMAIN l.chunks[ph] :
          l.chunks[ph][i].st \notin {"fetch", "wait"}

\* runSpeedTest called again: it clears the timer, aborts the controller in
\* the ref if there is one, installs a new one and starts over
runSpeedTestAgain ==
    /\ run # "idle"
    /\ ~isLoading
    /\ runId < MaxRuns
    /\ testSize = "SMALL"
    /\ Dead(previous) \/ Dead(LocalsOf(Cur))
    /\ LET s0 == [Cur EXCEPT !.timers = {},
                             !.abortedSignals = @ \cup ({abortController} \ {0})]
           s1 == SwapRuns(AbortRun(SwapRuns(AbortRun(s0))))
           kept == IF ~Dead(LocalsOf(s1)) THEN LocalsOf(s1)
                   ELSE IF ~Dead(s1.previous) THEN s1.previous
                   ELSE NoRun
           s2 == [WithLocals(s1, NoRun) EXCEPT
                      !.previous = kept,
                      !.id = runId + 1,
                      !.abortController = runId + 1,
                      !.timers = {runId + 1},
                      !.isLoading = TRUE,
                      !.error = "",
                      !.detailedError = "none",
                      !.results = {}]
       IN SetXfer(runDownloadTest(s2))
    /\ UNCHANGED faulty
    /\ UNCHANGED <<mtrVars, srvVars>>

PreviousHasChunk(ph, c) == c + 1 \in DOMAIN previous.chunks[ph]

\* a request of the earlier call answers with response.ok
PreviousChunkOk(ph, c) ==
    /\ PreviousHasChunk(ph, c)
    /\ previous.chunks[ph][c + 1].st = "fetch"
    /\ LET s == SwapRuns(Cur)
       IN SetXfer(SwapRuns(ChunkSettled(
              ReturnChunk([s EXCEPT !.chunks[ph][c + 1].st = "done"], ph, c),
              ph, c, TRUE)))
    /\ UNCHANGED faulty
    /\ UNCHANGED <<mtrVars, srvVars>>

\* a request of the earlier call fails
PreviousChunkError(ph, c) ==
    /\ PreviousHasChunk(ph, c)
    /\ previous.chunks[ph][c + 1].st = "fetch"
    /\ <<ph, c>> \in faulty \/ Cardinality(faulty) < MaxFaulty
    /\ faulty' = faulty \cup {<<ph, c>>}
    /\ LET s == SwapRuns(Cur)
       IN IF ShouldRetry(s.chunks[ph][c + 1].retryCount, Aborted(s))
          THEN SetXfer(SwapRuns([s EXCEPT !.chunks[ph][c + 1].st = "wait",
                                          !.chunks[ph][c + 1].failures = @ + 1]))
          ELSE SetXfer(SwapRuns(ChunkSettled(
                   ReturnChunk([s EXCEPT !.chunks[ph][c + 1].st = "failed",
                                         !.chunks[ph][c + 1].failures = @ + 1],
                               ph, c),
                   ph, c, FALSE)))
    /\ UNCHANGED <<mtrVars, srvVars>>

\* a backoff timer of the earlier call fires
PreviousBackoffElapsed(ph, c) ==
    /\ PreviousHasChunk(ph, c)
    /\ previous.chunks[ph][c + 1].st = "wait"
    /\ LET s == SwapRuns(Cur)
           s1 == ReturnChunk(
                     chunkHandler(s, ph, c, s.chunks[ph][c + 1].retryCount + 1),
                     ph, c)
       IN IF s1.chunks[ph][c + 1].st = "failed"
          THEN SetXfer(SwapRuns(ChunkSettled(s1, ph, c, FALSE)))
          ELSE SetXfer(SwapRuns(s1))
    /\ UNCHANGED faulty
    /\ UNCHANGED <<mtrVars, srvVars>>

\* the speed test on a network that fails requests and cancels by timeout;
\* the requests of a phase that are out are settled oldest first
XferNext ==
    \/ \E size \in Sizes : setTestSize(size)
    \/ runSpeedTest
    \/ \E ph \in Phases, c \in ChunkIds :
          Overtaken(ph, c) = 0 /\ ChunkOk(ph, c)
    \/ \E ph \in Phases, c \in ChunkIds :
          Overtaken(ph, c) = 0 /\ ChunkError(ph, c)
    \/ \E ph \in Phases, c \in ChunkIds : BackoffElapsed(ph, c)
    \/ handleTimeout

\* the speed test on a network where every request succeeds, the answers
\* coming out of order
ReorderNext ==
    \/ \E size \in Sizes : setTestSize(size)
    \/ runSpeedTest
    \/ \E ph \in Phases, c \in ChunkIds :
          Overtaken(ph, c) < MaxOvertake /\ ChunkOk(ph, c)

(***************************************************************************)
(* SpeedTestTime.tsx: the speed test that runs each phase for a fixed time *)
(* (second component of the same name, with the same state and refs; its   *)
(* functions carry the suffix Time here).  A phase starts chunks           *)
(* 0, 1, 2, ... for as long as its clock has not passed testEndTime;       *)
(* elapsed holds the phases whose clock has.  The upload buffers are       *)
(* generated before the download phase and handed out by shift().  A       *)
(* chunk whose handler found no buffer and waits for its backoff has       *)
(* st = "starved".  testMetrics is the object in the ref of that name,    *)
(* which all calls of runTest share and each replaces at its start (its    *)
(* times are left out); chunkSizeOf[ph] is the local chunkSize of the      *)
(* runTest of phase ph.  The model follows the first MaxStarts chunks of   *)
(* a phase: when they are started, the others the loop would start until   *)
(* the clock passes are left out.                                          *)
(***************************************************************************)
MaxStarts == 3

TEST_DURATION == 5000

CHUNK_SIZE_Time == 2 * 1024 * 1024

MIN_CHUNK_SIZE == 256 * 1024

MAX_CHUNK_SIZE == 4 * 1024 * 1024

\* the milliseconds a chunk can take from its start to its then
Durations == {100, 200, 400}

\* the milliseconds adjustChunkSize aims at for a chunk
targetDuration == 200

\* adjustChunkSize of runTest, with chunkSize the local it reads
adjustChunkSize(size, duration) ==
    LET newSize == (size * targetDuration) \div duration
        capped == IF MAX_CHUNK_SIZE < newSize THEN MAX_CHUNK_SIZE ELSE newSize
    IN IF MIN_CHUNK_SIZE > capped THEN MIN_CHUNK_SIZE ELSE capped

\* the then attached by runTest to the promise of a chunk, up to
\* updateProgress: the bytes go to the object that is in the ref now
chunkThen(s, ph, duration) ==
    [s EXCEPT !.testMetrics.bytesTransferred = @ + s.chunkSizeOf[ph],
              !.chunkSizeOf[ph] = adjustChunkSize(@, duration)]

\* Math.ceil(TEST_DURATION / CHUNK_SIZE), the length of preGeneratedChunks
preGeneratedChunks == (TEST_DURATION + CHUNK_SIZE_Time - 1) \div CHUNK_SIZE_Time

\* downloadChunk / uploadChunk (chunkId, retryCount) up to the fetch, or
\* through the throw of 'No chunks available for upload' and its catch
chunkHandlerTime(s, ph, c, retryCount) ==
    IF ph = "upload" /\ s.chunkPool = <<>>
    THEN LET ch == [s.chunks[ph][c + 1] EXCEPT !.retryCount = retryCount,
                                               !.failures = @ + 1]
         IN IF ShouldRetry(retryCount, Aborted(s))
            THEN [s EXCEPT !.chunks[ph][c + 1] = [ch EXCEPT !.st = "starved"]]
            ELSE [s EXCEPT !.chunks[ph][c + 1] = [ch EXCEPT !.st = "failed"]]
    ELSE IF ph = "upload"
         THEN \* shift() hands out the first buffer of the pool
              chunkHandler([s EXCEPT !.chunkPool = Tail(@) \o <<Head(@)>>],
                           ph, c, retryCount)
         ELSE chunkHandler(s, ph, c, retryCount)

\* runTest's locals at its start, and the new object in the ref
StartPhaseTime(s, ph) ==
    [s EXCEPT !.run = ph,
              !.testMetrics = [bytesTransferred |-> 0],
              !.chunkSizeOf[ph] = INITIAL_CHUNK_SIZE,
              !.phaseResult[ph] = "running",
              !.chunks[ph] = <<>>,
              !.chunkQueue[ph] = <<>>,
              !.activePromises[ph] = {},
              !.completedChunks[ph] = 0]

\* runTest has returned (ok) or thrown: the rest of runDownloadTest, which
\* rethrows, or of runUploadTest, and of runSpeedTest after it
PhaseEndTime(s, ph, ok) ==
    LET s1 == [s EXCEPT
                  !.phaseResult[ph] = IF ok THEN "resolved" ELSE "rejected",
                  !.results = IF ok THEN @ \cup {ph} ELSE @,
                  !.error = IF ok \/ Aborted(s) THEN @
                            ELSE IF ph = "download" THEN DownloadFailed
                            ELSE UploadFailed,
                  !.detailedError = IF ok THEN @
                                    ELSE IF ph = "download" THEN "unknown"
                                    ELSE IF Aborted(s) THEN @
                                    ELSE "network"]
    IN IF ph = "download"
       THEN IF ok THEN [s1 EXCEPT !.run = "pause"] ELSE Finish(s1)
       ELSE Finish([s1 EXCEPT !.chunkPool = <<>>])

RECURSIVE runTestTime(_, _)
RECURSIVE innerLoopTime(_, _)

\* await Promise.race(...) after the inner loop
awaitRaceTime(s, ph) ==
    LET dead == {c \in s.activePromises[ph] :
                     s.chunks[ph][c + 1].st = "failed"}
    IN IF s.activePromises[ph] = {}
       THEN IF ph \in s.elapsed THEN runTestTime(s, ph) ELSE s
       ELSE IF dead # {}
            THEN PhaseEndTime([s EXCEPT !.activePromises[ph] = @ \ dead],
                              ph, FALSE)
            ELSE s

\* while (activePromises.size < CONCURRENT_REQUESTS && now < testEndTime)
innerLoopTime(s, ph) ==
    IF /\ Cardinality(s.activePromises[ph]) < CONCURRENT_REQUESTS
       /\ ph \notin s.elapsed
       /\ s.completedChunks[ph] < MaxStarts
    THEN LET c == s.completedChunks[ph]
             s1 == [s EXCEPT
                       !.completedChunks[ph] = @ + 1,
                       !.chunks[ph] =
                           Append(@, [NewChunk EXCEPT !.started = 1]),
                       !.activePromises[ph] = @ \cup {c}]
         IN innerLoopTime(chunkHandlerTime(s1, ph, c, 0), ph)
    ELSE awaitRaceTime(s, ph)

\* runTest from the head of while (performance.now() < testEndTime)
runTestTime(s, ph) ==
    IF ph \in s.elapsed THEN PhaseEndTime(s, ph, TRUE)
    ELSE innerLoopTime(s, ph)

\* the then / catch attached by runTest to the promise of chunk c
ChunkSettledTime(s, ph, c, ok) ==
    LET s1 == [s EXCEPT !.activePromises[ph] = @ \ {c}]
    IN IF s.phaseResult[ph] = "running"
       THEN IF ok THEN runTestTime(s1, ph) ELSE PhaseEndTime(s1, ph, FALSE)
       ELSE s1

\* the button's onClick, up to the first await of runTest
runSpeedTestTime ==
    /\ run = "idle"
    /\ ~isLoading
    /\ LET s0 == [Cur EXCEPT !.id = runId + 1,
                             !.abortController = runId + 1,
                             !.timers = @ \cup {runId + 1},
                             !.isLoading = TRUE,
                             !.error = "",
                             !.detailedError = "none",
                             !.results = {},
                             !.chunkPool =
                                 FreshBuffers(Held(Cur), preGeneratedChunks)]
       IN SetXfer(runTestTime(StartPhaseTime(s0, "download"), "download"))
    /\ UNCHANGED faulty
    /\ UNCHANGED <<mtrVars, srvVars>>

\* the clock of the phase passes testEndTime
TestDurationElapsed(ph) ==
    /\ run = ph
    /\ ph \notin elapsed
    /\ LET s == [Cur EXCEPT !.elapsed = @ \cup {ph}]
       IN IF s.activePromises[ph] = {} /\ s.phaseResult[ph] = "running"
          THEN SetXfer(runTestTime(s, ph))
          ELSE SetXfer(s)
    /\ UNCHANGED faulty
    /\ UNCHANGED <<mtrVars, srvVars>>

\* the delay of runSpeedTest between the phases is over: runUploadTest
UploadDelayElapsed ==
    /\ run = "pause"
    /\ SetXfer(runTestTime(StartPhaseTime(Cur, "upload"), "upload"))
    /\ UNCHANGED faulty
    /\ UNCHANGED <<mtrVars, srvVars>>

\* the request of chunk c answers with response.ok, duration ms after
\* the loop started the chunk
ChunkOkTime(ph, c, duration) ==
    /\ HasChunk(ph, c)
    /\ chunks[ph][c + 1].st = "fetch"
    /\ SetXfer(ChunkSettledTime(
                   chunkThen(ReturnChunk([Cur EXCEPT
                                             !.chunks[ph][c + 1].st = "done"],
                                         ph, c),
                             ph, duration),
                   ph, c, TRUE))
    /\ UNCHANGED faulty
    /\ UNCHANGED <<mtrVars, srvVars>>

\* the request of chunk c fails: the catch of the chunk handler
ChunkErrorTime(ph, c) ==
    /\ HasChunk(ph, c)
    /\ chunks[ph][c + 1].st = "fetch"
    /\ <<ph, c>> \in faulty \/ Cardinality(faulty) < MaxFaulty
    /\ faulty' = faulty \cup {<<ph, c>>}
    /\ IF ShouldRetry(chunks[ph][c + 1].retryCount, Aborted(Cur))
       THEN SetXfer([Cur EXCEPT !.chunks[ph][c + 1].st = "wait",
                                !.chunks[ph][c + 1].failures = @ + 1])
       ELSE SetXfer(ChunkSettledTime(
                        ReturnChunk([Cur EXCEPT
                                        !.chunks[ph][c + 1].st = "failed",
                                        !.chunks[ph][c + 1].failures = @ + 1],
                                    ph, c),
                        ph, c, FALSE))
    /\ UNCHANGED <<mtrVars, srvVars>>

\* the backoff timer of chunk c fires: the handler calls itself with
\* retryCount + 1, and the frame that waited runs its finally, which has a
\* buffer to give back when it had got one
BackoffElapsedTime(ph, c) ==
    /\ HasChunk(ph, c)
    /\ chunks[ph][c + 1].st \in {"wait", "starved"}
    /\ LET s0 == chunkHandlerTime(Cur, ph, c, chunks[ph][c + 1].retryCount + 1)
           s1 == IF chunks[ph][c + 1].st = "wait" THEN ReturnChunk(s0, ph, c)
                 ELSE s0
       IN IF s1.chunks[ph][c + 1].st = "failed"
          THEN SetXfer(ChunkSettledTime(s1, ph, c, FALSE))
          ELSE SetXfer(s1)
    /\ UNCHANGED faulty
    /\ UNCHANGED <<mtrVars, srvVars>>

\* the backoff timers of the phase that run for chunks before c and were
\* set for a delay no longer than that of chunk c
SetEarlier(ph, c) ==
    Cardinality({d \in 0..(c - 1) :
                    /\ HasChunk(ph, d)
                    /\ chunks[ph][d + 1].st \in {"wait", "starved"}
                    /\ chunks[ph][d + 1].retryCount
                           <= chunks[ph][c + 1].retryCount})

\* the requests of the call that carry an aborted signal reject, and the
\* call unwinds when they belong to the phase it awaits
AbortRunTime(s) ==
    LET s1 == AbortPhase(AbortPhase(s, "download"), "upload")
    IN IF s.run \in Phases /\ Signalled(s, s.run) # {}
       THEN PhaseEndTime(s1, s.run, FALSE)
       ELSE s1

\* the timer set by runSpeedTest fires before its finally clears it
handleTimeoutTime ==
    /\ runId \in timers
    /\ SetXfer(AbortRunTime(
           [Cur EXCEPT !.timers = @ \ {runId},
                       !.abortedSignals = @ \cup ({abortController} \ {0}),
                       !.error = TimedOut,
                       !.detailedError = "timeout",
                       !.isLoading = FALSE]))
    /\ UNCHANGED faulty
    /\ UNCHANGED <<mtrVars, srvVars>>

\* the timed speed test on a network that fails requests and cancels by
\* timeout; the requests of a phase that are out are settled oldest first,
\* and so are its backoff timers of equal delay, and a chunk that arrives
\* takes the target duration
TimeNext ==
    \/ runSpeedTestTime
    \/ \E ph \in Phases : TestDurationElapsed(ph)
    \/ UploadDelayElapsed
    \/ \E ph \in Phases, c \in ChunkIds :
          Overtaken(ph, c) = 0 /\ ChunkOkTime(ph, c, targetDuration)
    \/ \E ph \in Phases, c \in ChunkIds :
          Overtaken(ph, c) = 0 /\ ChunkErrorTime(ph, c)
    \/ \E ph \in Phases, c \in ChunkIds :
          HasChunk(ph, c) /\ SetEarlier(ph, c) = 0 /\ BackoffElapsedTime(ph, c)
    \/ handleTimeoutTime

\* the timed speed test on a network that answers every request, the
\* chunks in any order and after any of the durations
LateNext ==
    \/ runSpeedTestTime
    \/ \E ph \in Phases : TestDurationElapsed(ph)
    \/ UploadDelayElapsed
    \/ \E ph \in Phases, c \in ChunkIds, duration \in Durations :
          ChunkOkTime(ph, c, duration)

\* the speed test with the button clicked again
RerunNext ==
    \/ \E size \in Sizes : setTestSize(size)
    \/ runSpeedTest
    \/ \E ph \in Phases, c \in ChunkIds :
          Overtaken(ph, c) = 0 /\ ChunkOk(ph, c)
    \/ \E ph \in Phases, c \in ChunkIds :
          Overtaken(ph, c) = 0 /\ ChunkError(ph, c)
    \/ \E ph \in Phases, c \in ChunkIds : BackoffElapsed(ph, c)
    \/ handleTimeout
    \/ runSpeedTestAgain
    \/ \E ph \in Phases, c \in ChunkIds : PreviousChunkOk(ph, c)
    \/ \E ph \in Phases, c \in ChunkIds : PreviousChunkError(ph, c)
    \/ \E ph \in Phases, c \in ChunkIds : PreviousBackoffElapsed(ph, c)

(***************************************************************************)
(* The server routes.  A string is a sequence of characters.  A chunk is   *)
(* its size and the 32-bit pattern its words are made from: the word at    *)
(* byte offset i (a multiple of 4) is pattern + (i & 0xffff), stored       *)
(* little-endian.                                                          *)
(***************************************************************************)
MAX_CHUNK_CACHE_SIZE == 32

MaxGets == 2

\* the ids requested: 5, 37 and 69 share a cache key, and so do 42 and 10
Ids ==
    { <<"a", "b", "c", "-", "5">>,
      <<"x", "-", "5">>,
      <<"a", "b", "c", "-", "3", "7">>,
      <<"a", "b", "c", "-", "4", "2">>,
      <<"1", "7", "-", "1", "0", "-", "9">>,
      <<"a", "b", "c">>,
      <<"a", "-", "x">> }

Null == <<"null">>

\* String(k) for 0 <= k < 100
Decimal(k) ==
    LET digits == <<"0", "1", "2", "3", "4", "5", "6", "7", "8", "9">>
    IN IF k < 10 THEN <<digits[k + 1]>>
       ELSE <<digits[(k \div 10) + 1], digits[(k % 10) + 1]>>

\* the id "n-k"
FillId(k) == <<"n", "-">> \o Decimal(k)

\* one id for every cache key, and one more that shares key 0
FillIds == {FillId(k) : k \in 0..MAX_CHUNK_CACHE_SIZE}

\* the id whose number is NaN
NaNId == <<"a", "-", "x">>

AllIds == Ids \cup FillIds

Digit ==
    [c \in {"0", "1", "2", "3", "4", "5", "6", "7", "8", "9"} |->
        CASE c = "0" -> 0 [] c = "1" -> 1 [] c = "2" -> 2 [] c = "3" -> 3
          [] c = "4" -> 4 [] c = "5" -> 5 [] c = "6" -> 6 [] c = "7" -> 7
          [] c = "8" -> 8 [] c = "9" -> 9]

RECURSIVE UpTo(_, _)

\* the part of str before the first sep
UpTo(str, sep) ==
    IF str = <<>> \/ Head(str) = sep THEN <<>>
    ELSE <<Head(str)>> \o UpTo(Tail(str), sep)

\* str.split(sep)[1], Null for undefined
SplitSecond(str, sep) ==
    LET first == UpTo(str, sep)
    IN IF Len(first) = Len(str) THEN Null
       ELSE UpTo(SubSeq(str, Len(first) + 2, Len(str)), sep)

RECURSIVE LeadingDigits(_)

LeadingDigits(str) ==
    IF str = <<>> \/ Head(str) \notin DOMAIN Digit THEN <<>>
    ELSE <<Head(str)>> \o LeadingDigits(Tail(str))

RECURSIVE DecimalValue(_)

DecimalValue(ds) ==
    IF ds = <<>> THEN 0
    ELSE 10 * DecimalValue(SubSeq(ds, 1, Len(ds) - 1)) + Digit[ds[Len(ds)]]

\* parseInt(str, 10): a sign, then the digits the string begins with
parseIntOf(str) ==
    LET signed == str # <<>> /\ Head(str) \in {"+", "-"}
        ds == LeadingDigits(IF signed THEN Tail(str) ELSE str)
    IN IF ds = <<>> THEN NaN
       ELSE IF signed /\ Head(str) = "-" THEN 0 - DecimalValue(ds)
       ELSE DecimalValue(ds)

\* parseInt(id.split("-")[1] || "0", 10)
IdNumber(id) ==
    LET part == SplitSecond(id, "-")
    IN parseIntOf(IF part = Null \/ part = <<>> THEN <<"0">> ELSE part)

\* (idNumber & 0xffff) | ((idNumber & 0xff) << 16), for idNumber >= 0 or NaN
Pattern(idNumber) ==
    IF idNumber = NaN THEN 0
    ELSE (idNumber % 65536) + (idNumber % 256) * 65536

\* view.setUint32(i, pattern + (i & 0xffff), true): the sum is below 2^25
WordAt(chunk, i) == chunk.pattern + (i % 65536)

\* the byte of the chunk at an offset
ByteAt(chunk, offset) ==
    IF offset >= chunk.size THEN -1
    ELSE (WordAt(chunk, offset - (offset % 4)) \div (256 ^ (offset % 4))) % 256

\* idNumber % MAX_CHUNK_CACHE_SIZE
CacheKey(idNumber) ==
    IF idNumber = NaN THEN NaN ELSE idNumber % MAX_CHUNK_CACHE_SIZE

\* mutant: a cached chunk is handed out once and leaves the cache
createChunkEvicts(cache, idNumber, chunkSize) ==
    LET cacheKey == CacheKey(idNumber)
        result == [size |-> chunkSize, pattern |-> Pattern(idNumber)]
    IN IF cacheKey \in DOMAIN cache
       THEN [chunk |-> cache[cacheKey],
             cache |-> [k \in DOMAIN cache \ {cacheKey} |-> cache[k]]]
       ELSE [chunk |-> result,
             cache |-> IF Cardinality(DOMAIN cache) < MAX_CHUNK_CACHE_SIZE
                       THEN [k \in DOMAIN cache \cup {cacheKey} |->
                                IF k = cacheKey THEN result ELSE cache[k]]
                       ELSE cache]

\* mutant: the chunk is made anew for the id even when its slot is filled
createChunkRegenerates(cache, idNumber, chunkSize) ==
    LET cacheKey == CacheKey(idNumber)
        result == [size |-> chunkSize, pattern |-> Pattern(idNumber)]
    IN [chunk |-> result,
        cache |-> IF cacheKey \notin DOMAIN cache
                     /\ Cardinality(DOMAIN cache) < MAX_CHUNK_CACHE_SIZE
                  THEN [k \in DOMAIN cache \cup {cacheKey} |->
                           IF k = cacheKey THEN result ELSE cache[k]]
                  ELSE cache]

\* mutant: the chunk made for the id is stored over the one in its slot
createChunkLastWins(cache, idNumber, chunkSize) ==
    LET cacheKey == CacheKey(idNumber)
        result == [size |-> chunkSize, pattern |-> Pattern(idNumber)]
    IN [chunk |-> result,
        cache |-> IF cacheKey \in DOMAIN cache
                     \/ Cardinality(DOMAIN cache) < MAX_CHUNK_CACHE_SIZE
                  THEN [k \in DOMAIN cache \cup {cacheKey} |->
                           IF k = cacheKey THEN result ELSE cache[k]]
                  ELSE cache]

\* createChunk of /api/speedtest/[id]: the chunk returned and the cache after
createChunk(cache, idNumber, chunkSize) ==
    LET cacheKey == CacheKey(idNumber)
        result == [size |-> chunkSize, pattern |-> Pattern(idNumber)]
    IN IF cacheKey \in DOMAIN cache
       THEN [chunk |-> cache[cacheKey], cache |-> cache]
       ELSE [chunk |-> result,
             cache |-> IF Cardinality(DOMAIN cache) < MAX_CHUNK_CACHE_SIZE
                       THEN [k \in DOMAIN cache \cup {cacheKey} |->
                                IF k = cacheKey THEN result ELSE cache[k]]
                       ELSE cache]

NoBody == [size |-> 0, pattern |-> 0]

NoPost ==
    [route |-> "none", contentLength |-> Null, chunkId |-> Null,
     valid |-> FALSE, size |-> 0, delivered |-> 0,
     bytesRead |-> 0, aborted |-> FALSE, status |-> 0, error |-> ""]

\* no request to /api/command yet
NoCommand ==
    [command |-> "none", status |-> 0, stream |-> <<>>, closed |-> FALSE,
     child |-> "none", threw |-> FALSE]

\* the server before its first request
SrvInit ==
    /\ chunkCache = <<>>
    /\ gets = [id \in Ids |-> 0]
    /\ firstBody = [id \in Ids |-> NoBody]
    /\ lastBody = [id \in Ids |-> NoBody]
    /\ posted = NoPost
    /\ cmd = NoCommand
    /\ microtasks = <<>>

\* GET of /api/speedtest/[id].  The handler adds the id to activeRequests
\* and deletes it in its finally with no await between the two, so no
\* request ever finds its id there.
GET(id) ==
    /\ gets[id] < MaxGets
    /\ LET r == createChunk(chunkCache, IdNumber(id), CHUNK_SIZE)
       IN /\ chunkCache' = r.cache
          /\ lastBody' = [lastBody EXCEPT ![id] = r.chunk]
          /\ firstBody' = IF gets[id] = 0
                          THEN [firstBody EXCEPT ![id] = r.chunk]
                          ELSE firstBody
    /\ gets' = [gets EXCEPT ![id] = @ + 1]
    /\ UNCHANGED posted
    /\ UNCHANGED <<mtrVars, xferVars, cmd, microtasks>>

\* how many createChunk calls may wait in the microtask queue
MaxQueued == 2

\* GET of /api/speedtest/[id] up to its return: the stream's start has
\* queued the microtask that is going to call createChunk, and the response
\* is returned with the stream; activeRequests holds the id only in between.
GETHandler(id) ==
    /\ gets[id] < MaxGets
    /\ Len(microtasks) < MaxQueued
    /\ microtasks' = Append(microtasks, id)
    /\ gets' = [gets EXCEPT ![id] = @ + 1]
    /\ UNCHANGED <<chunkCache, firstBody, lastBody, posted>>
    /\ UNCHANGED <<mtrVars, xferVars, cmd>>

\* the oldest queued microtask runs: createChunk for its id, and the chunk
\* is enqueued on the stream of its response
createChunkTask ==
    /\ microtasks # <<>>
    /\ LET id == Head(microtasks)
           r == createChunk(chunkCache, IdNumber(id), CHUNK_SIZE)
       IN /\ chunkCache' = r.cache
          /\ lastBody' = [lastBody EXCEPT ![id] = r.chunk]
          /\ firstBody' = IF firstBody[id] = NoBody
                          THEN [firstBody EXCEPT ![id] = r.chunk]
                          ELSE firstBody
    /\ microtasks' = Tail(microtasks)
    /\ UNCHANGED <<gets, posted>>
    /\ UNCHANGED <<mtrVars, xferVars, cmd>>

UPLOAD_CHUNK_SIZE == 2 * 1024 * 1024

MismatchError == "Upload size mismatch"

RECURSIVE ReadBody(_, _, _, _)

\* the read loop of POST of /api/speedtest/[id]: body is what reader.read()
\* still has to deliver, reads the number of loop heads the handler passes
\* before its 30 s timer aborts its controller; aborted tells that the loop
\* ended at controller.signal.aborted
ReadBody(body, size, bytesRead, reads) ==
    IF reads = 0 \/ body = <<>>
    THEN [bytesRead |-> bytesRead, error |-> "", aborted |-> reads = 0]
    ELSE IF size # NaN /\ bytesRead + Head(body) > size
         THEN [bytesRead |-> bytesRead + Head(body), error |-> MismatchError,
               aborted |-> FALSE]
         ELSE ReadBody(Tail(body), size, bytesRead + Head(body), reads - 1)

\* the Content-Length headers, x-chunk-id headers and bodies of the model
Lengths ==
    { Null,
      <<"1", "0", "0", "0">>,
      <<"2", "0", "0", "0">>,
      <<"1", "5", "0", "0">>,
      <<"6", "0", "0">>,
      <<"0">>,
      <<"-", "1">>,
      <<"9", "0", "0", "0", "0", "0", "0", "0">>,
      <<"5", "0", "0", "0", "0", "0", "0">>,
      <<"a">> }

ChunkIdHeaders == {Null, <<"0">>}

Bodies ==
    {<<>>, <<1000>>, <<2000>>, <<1000, 1000>>, <<600, 600, 600>>,
     <<500, 500>>, <<700, 1400>>, <<1000, 1>>, <<3000>>}

\* the loop heads a handler passes before its timer fires: the first one
\* always, and at most MaxReads
MaxReads == 3

\* a request refused before its body is read
Unread(err) == [bytesRead |-> 0, error |-> err, aborted |-> FALSE]

\* the response of the POST handlers, with the headers of the request; r is
\* what the read loop came to
Answer(route, headers, valid, size, body, r) ==
    [route |-> route, contentLength |-> headers[1], chunkId |-> headers[2],
     valid |-> valid, size |-> size,
     delivered |-> SumSeq(body), bytesRead |-> r.bytesRead,
     aborted |-> r.aborted,
     status |-> IF r.error = "" THEN 200 ELSE 400, error |-> r.error]

\* mutant: the body is read before the declared length is looked at
POSTReadsFirst(contentLength, chunkId, body, reads) ==
    /\ LET size == parseIntOf(contentLength)
           headers == <<contentLength, chunkId>>
           r == ReadBody(body, size, 0, reads)
       IN posted' =
            IF contentLength = Null \/ contentLength = <<>>
               \/ chunkId = Null \/ chunkId = <<>>
            THEN Answer("speedtest", headers, FALSE, 0, body,
                        Unread("Missing required headers"))
            ELSE IF size # NaN /\ size > CHUNK_SIZE * 2
            THEN Answer("speedtest", headers, FALSE, size, body,
                        [r EXCEPT !.error = "Request too large"])
            ELSE Answer("speedtest", headers, TRUE, size, body, r)
    /\ UNCHANGED <<chunkCache, gets, firstBody, lastBody>>
    /\ UNCHANGED <<mtrVars, xferVars, cmd, microtasks>>

\* POST of /api/speedtest/[id]
POST(contentLength, chunkId, body, reads) ==
    /\ LET size == parseIntOf(contentLength)
           headers == <<contentLength, chunkId>>
       IN posted' =
            IF contentLength = Null \/ contentLength = <<>>
               \/ chunkId = Null \/ chunkId = <<>>
            THEN Answer("speedtest", headers, FALSE, 0, body,
                        Unread("Missing required headers"))
            ELSE IF size # NaN /\ size > CHUNK_SIZE * 2
            THEN Answer("speedtest", headers, FALSE, size, body,
                        Unread("Request too large"))
            ELSE Answer("speedtest", headers, TRUE, size, body,
                        ReadBody(body, size, 0, reads))
    /\ UNCHANGED <<chunkCache, gets, firstBody, lastBody>>
    /\ UNCHANGED <<mtrVars, xferVars, cmd, microtasks>>

\* POST of /api/speedtesttime/[id], with validateHeaders; its read loop
\* counts nothing, so it runs as ReadBody does with no declared size
POSTTime(contentLength, chunkId, body, reads) ==
    /\ LET size == parseIntOf(contentLength)
           headers == <<contentLength, chunkId>>
       IN posted' =
            IF contentLength = Null \/ contentLength = <<>>
               \/ chunkId = Null \/ chunkId = <<>>
            THEN Answer("speedtesttime", headers, FALSE, 0, body,
                        Unread("Missing required headers: content-length and x-chunk-id"))
            ELSE IF size = NaN \/ size <= 0 \/ size > UPLOAD_CHUNK_SIZE * 2
            THEN Answer("speedtesttime", headers, FALSE, size, body,
                        Unread("Invalid content length"))
            ELSE Answer("speedtesttime", headers, TRUE, size, body,
                        ReadBody(body, NaN, 0, reads))
    /\ UNCHANGED <<chunkCache, gets, firstBody, lastBody>>
    /\ UNCHANGED <<mtrVars, xferVars, cmd, microtasks>>

(***************************************************************************)
(* POST of /api/command.  The stream's start runs when the ReadableStream  *)
(* is made; the listeners of the child run as its events come: data of     *)
(* stdout and stderr in any order while the pipes are open, close once     *)
(* the process has ended and both pipes are closed.                        *)
(***************************************************************************)
ALLOWED_COMMANDS == {"ping", "ping6", "host", "mtr", "mtr6", "livemtr"}

\* the commands requested: three the route allows and one it does not
Commands == {"ping", "mtr", "livemtr", "livemtr6"}

MaxMessages == 4

\* controller.enqueue(message): it throws once the stream is closed
Enqueue(c, message) ==
    IF c.closed THEN [c EXCEPT !.threw = TRUE]
    ELSE [c EXCEPT !.stream = Append(@, message)]

\* the POST handler up to its return; spawnThrows: childProcess.spawn throws
CommandPOST(command, spawnThrows) ==
    /\ cmd.command = "none"
    /\ cmd' =
         IF command \notin ALLOWED_COMMANDS
         THEN [NoCommand EXCEPT !.command = command, !.status = 400]
         ELSE LET opened == [NoCommand EXCEPT !.command = command, !.status = 200]
                  first == IF command = "livemtr"
                           THEN Enqueue(opened, "system_info") ELSE opened
              IN IF spawnThrows
                 THEN [Enqueue(first, "error") EXCEPT !.closed = TRUE]
                 ELSE [first EXCEPT !.child = "running"]
    /\ UNCHANGED <<chunkCache, gets, firstBody, lastBody, posted, microtasks>>
    /\ UNCHANGED <<mtrVars, xferVars>>

\* child.stdout.on("data")
StdoutData ==
    /\ cmd.child = "running"
    /\ Len(cmd.stream) < MaxMessages
    /\ cmd' = Enqueue(cmd, "output")
    /\ UNCHANGED <<chunkCache, gets, firstBody, lastBody, posted, microtasks>>
    /\ UNCHANGED <<mtrVars, xferVars>>

\* child.stderr.on("data")
StderrData ==
    /\ cmd.child = "running"
    /\ Len(cmd.stream) < MaxMessages
    /\ cmd' = Enqueue(cmd, "error")
    /\ UNCHANGED <<chunkCache, gets, firstBody, lastBody, posted, microtasks>>
    /\ UNCHANGED <<mtrVars, xferVars>>

\* mutant: the stream is closed when the process exits, its pipes still open
ChildCloseAtExit(code) ==
    /\ cmd.child = "running"
    /\ ~cmd.closed
    /\ cmd' = [(IF code # 0 THEN Enqueue(cmd, "error") ELSE cmd)
                 EXCEPT !.closed = TRUE]
    /\ UNCHANGED <<chunkCache, gets, firstBody, lastBody, posted, microtasks>>
    /\ UNCHANGED <<mtrVars, xferVars>>

\* child.on("close")
ChildClose(code) ==
    /\ cmd.child = "running"
    /\ cmd' = [(IF code # 0 THEN Enqueue(cmd, "error") ELSE cmd)
                 EXCEPT !.closed = TRUE, !.child = "closed"]
    /\ UNCHANGED <<chunkCache, gets, firstBody, lastBody, posted, microtasks>>
    /\ UNCHANGED <<mtrVars, xferVars>>

CommandNext ==
    \/ \E command \in Commands, spawnThrows \in BOOLEAN :
          CommandPOST(command, spawnThrows)
    \/ StdoutData
    \/ StderrData
    \/ \E code \in {0, 1} : ChildClose(code)

\* the GET requests the first route answers
GetNext == \E id \in Ids : GET(id)

\* the server before its first request, with the ids that fill the cache
FillInit ==
    /\ chunkCache = <<>>
    /\ gets = [id \in AllIds |-> 0]
    /\ firstBody = [id \in AllIds |-> NoBody]
    /\ lastBody = [id \in AllIds |-> NoBody]
    /\ posted = NoPost
    /\ cmd = NoCommand
    /\ microtasks = <<>>

\* the server before its first request, when no GET is going to be watched
SrvIdle ==
    /\ chunkCache = <<>>
    /\ gets = <<>>
    /\ firstBody = <<>>
    /\ lastBody = <<>>
    /\ posted = NoPost
    /\ cmd = NoCommand
    /\ microtasks = <<>>

\* GET requests that fill the cache: the ids n-1, n-2, ... once each, in
\* this order after n-0, and at any time n-0, n-32 and the id whose number
\* is NaN
FillNext ==
    \/ \E k \in 1..(MAX_CHUNK_CACHE_SIZE - 1) :
          /\ gets[FillId(k - 1)] > 0
          /\ gets[FillId(k)] = 0
          /\ GET(FillId(k))
    \/ GET(FillId(0))
    \/ GET(FillId(MAX_CHUNK_CACHE_SIZE))
    \/ GET(NaNId)

\* concurrent GET requests that fill the cache: each handler queues its
\* createChunk, and the queued calls run in the order they were queued.  The
\* ids n-1, n-2, ... are requested once each in this order, and n-0, n-32 and
\* the id whose number is NaN at any time.
ConcurrentNext ==
    \/ \E k \in 1..(MAX_CHUNK_CACHE_SIZE - 1) :
          /\ \/ k = 1
             \/ gets[FillId(k - 1)] > 0
          /\ gets[FillId(k)] = 0
          /\ GETHandler(FillId(k))
    \/ GETHandler(FillId(0))
    \/ GETHandler(FillId(MAX_CHUNK_CACHE_SIZE))
    \/ GETHandler(NaNId)
    \/ createChunkTask

\* the POST requests the two routes answer
PostNext ==
    \/ \E contentLength \in Lengths, chunkId \in ChunkIdHeaders,
          body \in Bodies, reads \in 1..MaxReads :
          POST(contentLength, chunkId, body, reads)
    \/ \E contentLength \in Lengths, chunkId \in ChunkIdHeaders,
          body \in Bodies, reads \in 1..MaxReads :
          POSTTime(contentLength, chunkId, body, reads)

(***************************************************************************)
(* Specifications                                                          *)
(***************************************************************************)
Init == MtrInit /\ XferInit /\ SrvIdle

\* the MTR session
Next == MtrNext

Spec == Init /\ [][Next]_vars

\* the speed test
SpecTransfer == Init /\ [][XferNext]_vars

SpecReorder == Init /\ [][ReorderNext]_vars

\* the speed test of the SMALL size on a network that fails requests, the
\* answers coming out of order
RetryNext ==
    \/ setTestSize("SMALL")
    \/ testSize = "SMALL" /\ runSpeedTest
    \/ \E ph \in Phases, c \in ChunkIds : ChunkOk(ph, c)
    \/ \E ph \in Phases, c \in ChunkIds : ChunkError(ph, c)
    \/ \E ph \in Phases, c \in ChunkIds : BackoffElapsed(ph, c)

SpecRetry == Init /\ [][RetryNext]_vars

\* a request that is out is answered or fails
RequestSettles ==
    \E ph \in Phases, c \in ChunkIds : ChunkOk(ph, c) \/ ChunkError(ph, c)

\* a backoff timer that is running fires
TimerFires == \E ph \in Phases, c \in ChunkIds : BackoffElapsed(ph, c)

\* the same, where every request settles and every backoff timer fires
SpecRetryFair ==
    /\ Init
    /\ [][RetryNext]_vars
    /\ WF_vars(RequestSettles)
    /\ WF_vars(TimerFires)

SpecLate == Init /\ [][LateNext]_vars

SpecRerun == Init /\ [][RerunNext]_vars

SpecTime == Init /\ [][TimeNext]_vars

InitGet == MtrInit /\ XferInit /\ SrvInit

SpecGet == InitGet /\ [][GetNext]_vars

SpecPost == Init /\ [][PostNext]_vars

InitFill == MtrInit /\ XferInit /\ FillInit

SpecFill == InitFill /\ [][FillNext]_vars

\* GET requests whose createChunk calls wait in the microtask queue
SpecConcurrent == InitFill /\ [][ConcurrentNext]_vars

\* one request to /api/command
SpecCommand == Init /\ [][CommandNext]_vars

\* the MTR session of host lines: every h line of Lines, a sample of hop 0
\* and a line of another type that names hop 1
HostLines ==
    {line \in Lines : line.type = "h"}
    \cup {Line("p", <<IntTok(0), DecTok(1000), IntTok(1)>>),
          Line("d", <<IntTok(1)>>)}

HostsNext ==
    \/ \E mode \in {"eager", "queued"} : BeginMessage(mode)
    \/ \E line \in HostLines : nLines < MaxLines /\ ParseLine(line)
    \/ EndMessage
    \/ Render
    \/ \E f \in fetches, answered \in BOOLEAN : AsnSettled(f, answered)

SpecHosts == Init /\ [][HostsNext]_vars

\* the MTR session to the end of its stream
SpecSession == Init /\ [][SessionNext]_vars

SpecCut == Init /\ [][CutNext]_vars


(***************************************************************************)
(* A long run of received probes on hop 0, to fill the latency window and  *)
(* overflow it.  Sample n has sequence number n and one of three           *)
(* latencies; the line of sample 1 comes again as a duplicate.             *)
(***************************************************************************)
MaxBurst == 102

BurstLine(n) == Line("p", <<IntTok(0), DecTok(1000 * (1 + (n % 3))), IntTok(n)>>)

BurstLines == {BurstLine(Len(accepted[0]) + 1), BurstLine(1)}

WindowNext ==
    \/ \E mode \in {"eager", "queued"} : BeginMessage(mode)
    \/ \E line \in BurstLines : nLines < MaxBurst /\ ParseLine(line)
    \/ EndMessage
    \/ Render

SpecWindow == Init /\ [][WindowNext]_vars

(***************************************************************************)
(* A run of received probes on hop 0 whose first sample is the lowest and  *)
(* whose second is the highest of all, so that the window loses its        *)
(* minimum at the 101st sample and its maximum at the 102nd.               *)
(***************************************************************************)
EvictLatency(n) ==
    CASE n = 1 -> 1000
      [] n = 2 -> 9000
      [] OTHER -> IF n % 2 = 0 THEN 3000 ELSE 5000

EvictLine(n) == Line("p", <<IntTok(0), DecTok(EvictLatency(n)), IntTok(n)>>)

EvictNext ==
    \/ \E mode \in {"eager", "queued"} : BeginMessage(mode)
    \/ nLines < MaxBurst /\ ParseLine(EvictLine(Len(accepted[0]) + 1))
    \/ EndMessage
    \/ Render

SpecEvict == Init /\ [][EvictNext]_vars

(***************************************************************************)
(* Sent probes of hop 0 past the first loss batch: the x line with the     *)
(* next new sequence number, the x line of sequence number 1 again, and    *)
(* the reply to probe 1.                                                   *)
(***************************************************************************)
MaxProbes == 7

LossLines ==
    {Line("x", <<IntTok(0), IntTok(Len(RowOf(mtrDataArray, 0).SentPackets) + 1)>>),
     Line("x", <<IntTok(0), IntTok(1)>>),
     Line("p", <<IntTok(0), DecTok(1000), IntTok(1)>>)}

LossNext ==
    \/ \E mode \in {"eager", "queued"} : BeginMessage(mode)
    \/ \E line \in LossLines : nLines < MaxProbes /\ ParseLine(line)
    \/ EndMessage
    \/ Render

SpecLoss == Init /\ [][LossNext]_vars

(***************************************************************************)
(* Claims                                                                  *)
(***************************************************************************)
Min(a, b) == IF a < b THEN a ELSE b

Rows == {mtrDataArray[i] : i \in 1..Len(mtrDataArray)}

\* C1: the latency window of a hop holds min(100, accepted samples) entries,
\* and they are the most recently accepted samples in arrival order (the
\* oldest is the one evicted); every accepted sample is one received
\* sequence number.
C1_WindowIsLatestSamples ==
    \A r \in Rows :
        LET a == accepted[r.Hop]
            n == Len(a)
            k == Min(MAX_PACKETS, n)
        IN /\ Len(r.Pings) = k
           /\ r.Pings = SubSeq(a, n - k + 1, n)
           /\ Len(r.ReceivedPackets) = n

C1_Witness ==
    \E r \in Rows : Len(accepted[r.Hop]) > MAX_PACKETS /\ Len(r.Pings) = MAX_PACKETS

(***************************************************************************)
(* MtrTable: the cells of the latency columns.  A cell is N/A or the       *)
(* number toFixed(2), in hundredths.                                       *)
(***************************************************************************)
NACell == [na |-> TRUE, hundredths |-> 0]

NumCell(v) == [na |-> FALSE, hundredths |-> (v * 100 + 40) \div 80]

LastCell(row) == IF row.Last = Infinity THEN NACell ELSE NumCell(row.Last)

AvgCell(row) == IF row.Avg = 0 THEN NACell ELSE NumCell(row.Avg)

BestCell(row) == IF row.Best = Infinity THEN NACell ELSE NumCell(row.Best)

WorstCell(row) == IF row.Worst = -Infinity THEN NACell ELSE NumCell(row.Worst)

\* the state between two messages, every queued update applied and rendered
Quiet == msg = "none" /\ ~lanes

\* C2 (as claimed): every hop's lossPercent lies in [0, 100], and it is 0
\* when the hop has no sent sequence number.
C2_LossWithinPercentRange ==
    \A r \in Rows :
        /\ r.LossPercent >= 0
        /\ r.LossPercent <= 10000
        /\ Len(r.SentPackets) = 0 => r.LossPercent = 0

\* C3: applying an x or a p line whose sequence number is already recorded
\* for its hop leaves the sent set, the received set and the latency window
\* of every hop as they were.
C3_DuplicateIsNoOp ==
    [][\A line \in Lines :
         (nLines' # nLines /\ DuplicateSeq(line, mtrDataArray) /\ ParseLine(line)) =>
            /\ Len(mtrDataArray') = Len(mtrDataArray)
            /\ \A i \in 1..Len(mtrDataArray) :
                 /\ mtrDataArray'[i].SentPackets = mtrDataArray[i].SentPackets
                 /\ mtrDataArray'[i].ReceivedPackets = mtrDataArray[i].ReceivedPackets
                 /\ mtrDataArray'[i].Pings = mtrDataArray[i].Pings]_vars

C3_Witness ==
    /\ dupApplied
    /\ \E r \in Rows : Len(r.SentPackets) + Len(r.ReceivedPackets) > 0

\* the session has consumed the four lines of scenario A and nothing else,
\* and every update they queued has been applied
ScenarioADone == scenarioA = Len(ScenarioA) /\ Quiet

ScenarioARow(r, losses) ==
    /\ r.Hop = 0
    /\ r.SentPackets = <<1, 2>>
    /\ r.ReceivedPackets = <<1>>
    /\ r.LossPercent \in losses
    /\ r.Last = 1
    /\ r.Host = "10.0.0.1"
    /\ <<0, "10.0.0.1">> \in fetches => r.ASN = NA

\* C4 (as claimed): after scenario A hop 0 has sent [1,2], received [1],
\* lossPercent 0, last 0.0125, host 10.0.0.1 and, while the lookup is
\* pending, asn N/A.
C4_ScenarioLossStillZero ==
    ScenarioADone =>
        /\ Len(mtrDataArray) = 1
        /\ ScenarioARow(mtrDataArray[1], {0})

\* C4 (amended): the same, with lossPercent 50 (the p line recomputes it as
\* (2 - 1) / 2 * 100) or, when the p line's recomputation does not find the
\* row, 0.
C4_ScenarioLossRecomputed ==
    ScenarioADone =>
        /\ Len(mtrDataArray) = 1
        /\ ScenarioARow(mtrDataArray[1], {0, 5000})

C4_Witness ==
    /\ ScenarioADone
    /\ mtrDataArray[1].LossPercent = 5000
    /\ <<0, "10.0.0.1">> \in fetches

\* the line is a host-discovery event that parseMtrLine hands to
\* handleHostLine for hop h
HostEventFor(line, h) ==
    HasHop(line) /\ HopOfLine(line) = h /\ line.type = "h" /\ Len(line.parts) >= 2

\* C5: an h line for hop N sets isHidden of hop N to whether the discovered
\* host equals the host stored for hop N-1 at that instant, and to false
\* when hop N-1 has no record.
C5_HiddenIffSameAsPreviousHop ==
    [][\A line \in Lines : \A h \in AllHops :
         (nLines' # nLines /\ HostEventFor(line, h) /\ ParseLine(line)) =>
            RowOf(mtrDataArray', h).isHidden =
                (/\ FindIndex(mtrDataArray, h - 1) # 0
                 /\ RowOf(mtrDataArray, h - 1).Host = line.parts[2].s)]_vars

C5_Witness ==
    \E r \in Rows :
        /\ r.isHidden
        /\ FindIndex(mtrDataArray, r.Hop - 1) # 0
        /\ RowOf(mtrDataArray, r.Hop - 1).Host = r.Host

\* C6: a step that is not a host-discovery event for hop N leaves isHidden
\* of hop N as it was, also when it changes the host of hop N-1.
C6_HiddenChangesOnlyAtDiscovery ==
    [][\A h \in AllHops :
         RowOf(mtrDataArray', h).isHidden # RowOf(mtrDataArray, h).isHidden =>
            \E line \in Lines : HostEventFor(line, h) /\ ParseLine(line)]_vars

\* hop N is hidden although hop N-1 has since been given another host
C6_Witness ==
    \E r \in Rows :
        /\ r.isHidden
        /\ FindIndex(mtrDataArray, r.Hop - 1) # 0
        /\ RowOf(mtrDataArray, r.Hop - 1).Host # r.Host
        /\ Len(r.Pings) > 0

\* C7: with no valid sample best is +Infinity, worst -Infinity, avg 0 and
\* the table shows N/A for the three; with exactly one accepted sample v,
\* valid, best = worst = avg = v / 1000 and stdev = 0.
C7_SentinelsAndSingleSample ==
    \A r \in Rows :
        LET valid == SelectSeq(r.Pings, IsValidPing)
        IN /\ Len(valid) = 0 =>
                /\ r.Best = Infinity /\ r.Worst = -Infinity /\ r.Avg = 0
                /\ BestCell(r).na /\ WorstCell(r).na /\ AvgCell(r).na
           /\ (Len(r.Pings) = 1 /\ Len(valid) = 1) =>
                /\ r.Best = accepted[r.Hop][1] \div 1000
                /\ r.Worst = r.Best
                /\ r.Avg = r.Best
                /\ r.Last = r.Best
                /\ r.StDev = 0
                /\ ~BestCell(r).na /\ ~WorstCell(r).na /\ ~AvgCell(r).na

C7_Witness ==
    /\ \E r \in Rows : Len(r.Pings) = 1 /\ r.Best = 1 /\ r.Worst = 1 /\ r.Avg = 1
    /\ \E r \in Rows : Len(r.Pings) = 1 /\ r.Best = Infinity

\* the chunks of a phase
ChunksOf(ph) == {chunks[ph][i] : i \in DOMAIN chunks[ph]}

RECURSIVE Issued(_)

\* the requests issued for a sequence of chunks
Issued(cs) == IF cs = <<>> THEN 0 ELSE Head(cs).issued + Issued(Tail(cs))

\* n = ceil(total / chunk), by the definition of the ceiling
IsCeil(n, total, chunk) == n * chunk >= total /\ (n - 1) * chunk < total

\* C8: a phase has N = ceil(size / CHUNK_SIZE) chunk indices 0..N-1 and
\* starts each at most once, the indices out of its queue and no other;
\* when it resolves every index was started once, and when no request
\* failed exactly N requests were issued: 4 for 16 MiB in 4 MiB chunks.
C8_EachIndexStartedOnce ==
    \A ph \in Phases :
        phaseResult[ph] # "none" =>
            LET n == Len(chunks[ph])
                queued == {chunkQueue[ph][k] : k \in DOMAIN chunkQueue[ph]}
            IN /\ IsCeil(n, TEST_SIZES[testSize][ph], CHUNK_SIZE)
               /\ \A c \in 0..(n - 1) :
                    chunks[ph][c + 1].started = IF c \in queued THEN 0 ELSE 1
               /\ phaseResult[ph] = "resolved" =>
                    /\ queued = {}
                    /\ \A ch \in ChunksOf(ph) : ch.failures = 0 =>
                         ch.st = "done" /\ ch.issued = 1
                    /\ (\A ch \in ChunksOf(ph) : ch.failures = 0) =>
                         /\ Issued(chunks[ph]) = n
                         /\ completedChunks[ph] = n
                         /\ totalBytes[ph] = n * CHUNK_SIZE
                    /\ (ph = "download" /\ testSize = "SMALL" /\ faulty = {}) =>
                         Issued(chunks[ph]) = 4

C8_Witness ==
    /\ testSize = "SMALL"
    /\ phaseResult["download"] = "resolved"
    /\ faulty = {}
    /\ TEST_SIZES[testSize]["download"] = 16 * 1024 * 1024
    /\ Issued(chunks["download"]) = 4

\* C9 (as claimed): a chunk whose request has failed 3 times is not
\* attempted again: it has failed for good and its phase has failed.
C9_ThreeFailuresEndTheChunk ==
    \A ph \in Phases : \A ch \in ChunksOf(ph) :
        ch.failures >= 3 =>
            /\ ch.issued <= 3
            /\ ch.st = "failed"
            /\ phaseResult[ph] = "rejected"

\* C9 (amended): a chunk is attempted at most 4 times, the first attempt
\* and MAX_RETRIES retries; one whose request has failed 4 times is not
\* attempted again, it has failed for good and its phase has failed; and a
\* chunk fails for good after fewer failures only when the run was aborted.
C9_FourFailuresEndTheChunk ==
    \A ph \in Phases : \A ch \in ChunksOf(ph) :
        /\ ch.issued <= MAX_RETRIES + 1
        /\ ch.failures >= MAX_RETRIES + 1 =>
              /\ ch.issued = MAX_RETRIES + 1
              /\ ch.st = "failed"
              /\ phaseResult[ph] = "rejected"
        /\ (ch.st = "failed" /\ ch.failures <= MAX_RETRIES) => error = TimedOut

C9_Witness ==
    \E ph \in Phases : \E ch \in ChunksOf(ph) :
        /\ ch.failures = 4
        /\ ch.issued = 4
        /\ ch.st = "failed"
        /\ phaseResult[ph] = "rejected"
        /\ error # TimedOut

\* a chunk of the phase has failed with its retries exhausted
Exhausted(ph) ==
    \E ch \in ChunksOf(ph) : ch.st = "failed" /\ ch.retryCount = MAX_RETRIES

\* C10: once a chunk of a phase has failed with its retries exhausted, the
\* phase has ended in failure and no step starts a chunk of that phase: the
\* indices still in its queue stay there, never started.
C10_NoStartAfterFailure ==
    [][\A ph \in Phases :
         Exhausted(ph) =>
            /\ phaseResult[ph] = "rejected"
            /\ chunkQueue'[ph] = chunkQueue[ph]
            /\ \A i \in DOMAIN chunks[ph] :
                 chunks'[ph][i].started = chunks[ph][i].started
            /\ \A k \in DOMAIN chunkQueue[ph] :
                 chunks'[ph][chunkQueue[ph][k] + 1].st = "queued"]_vars

\* the phase failed with indices waiting, and the run has gone on to its end
C10_Witness ==
    \E ph \in Phases :
        /\ Exhausted(ph)
        /\ chunkQueue[ph] # <<>>
        /\ \A k \in DOMAIN chunkQueue[ph] :
             chunks[ph][chunkQueue[ph][k] + 1].issued = 0
        /\ run = "done"

\* the chunk transfers of a phase that are in flight: a request is out, or
\* the backoff timer of a retry runs
InFlight(ph) ==
    {c \in ChunkIds : HasChunk(ph, c) /\ chunks[ph][c + 1].st \in {"fetch", "wait"}}

\* C11: at every instant the chunk transfers of a phase that are in flight
\* are at most CONCURRENT_REQUESTS = 8, and while the phase runs they are
\* the promises of its active set.
C11_InFlightWithinConcurrency ==
    \A ph \in Phases :
        /\ Cardinality(InFlight(ph)) <= CONCURRENT_REQUESTS
        /\ Cardinality(activePromises[ph]) <= CONCURRENT_REQUESTS
        /\ phaseResult[ph] = "running" => activePromises[ph] = InFlight(ph)

\* the limit is reached with indices waiting, after a retry and an overtaking
C11_Witness ==
    \E ph \in Phases :
        /\ Cardinality(InFlight(ph)) = CONCURRENT_REQUESTS
        /\ chunkQueue[ph] # <<>>
        /\ \E c \in InFlight(ph) : chunks[ph][c + 1].retryCount > 0
        /\ \E c \in InFlight(ph), d \in ChunkIds :
             c < d /\ HasChunk(ph, d) /\ chunks[ph][d + 1].st = "done"

\* the chunks of a phase whose request is out
Requesting(ph) ==
    {c \in ChunkIds : HasChunk(ph, c) /\ chunks[ph][c + 1].st = "fetch"}

\* C12 (as claimed): at no instant are a request of a download chunk and a
\* request of an upload chunk of the run both out, nor is a download chunk
\* in flight while the upload phase runs.
C12_PhasesNeverOverlap ==
    /\ ~(Requesting("download") # {} /\ Requesting("upload") # {})
    /\ phaseResult["upload"] = "running" => InFlight("download") = {}


\* the run whose AbortController is k has been cancelled
Cancelled(k) == k \in abortedSignals

\* C13 (as claimed): once the run is cancelled, no chunk of it that waits
\* after a failed request sends its request again.
C13_NoRetryAfterCancel ==
    [][Cancelled(runId) =>
          \A ph \in Phases, c \in ChunkIds :
              (/\ HasChunk(ph, c)
               /\ chunks[ph][c + 1].st = "wait"
               /\ Len(chunks'[ph]) > c)
                  => chunks'[ph][c + 1].st # "fetch"]_vars

RECURSIVE Started(_)

\* the chunk transfers the scheduling loop has started, of a sequence of chunks
Started(cs) == IF cs = <<>> THEN 0 ELSE Head(cs).started + Started(Tail(cs))

\* C14 (as claimed): a step that leaves the run cancelled has started no
\* chunk transfer, neither in the phase that ran nor in the phase after it.
C14_NoStartAfterCancel ==
    [][runId' = runId /\ runId \in abortedSignals' =>
          \A ph \in Phases :
              Started(chunks'[ph]) = IF phaseResult[ph] = "none" THEN 0
                                    ELSE Started(chunks[ph])]_vars

\* C15 (as claimed): once the button has been clicked again, the call of
\* runSpeedTest before it sends no request, and no step of it changes the
\* controller in the ref, the error, the results or the loading flag.
C15_PreviousRunIsSilent ==
    [][runId' = runId /\ timers' = timers =>
          /\ \A ph \in Phases :
                Issued(previous'.chunks[ph]) <= Issued(previous.chunks[ph])
          /\ previous' # previous =>
                /\ abortController' = abortController
                /\ error' = error
                /\ results' = results
                /\ isLoading' = isLoading]_vars

\* C16 (as claimed): once the timeout of the run has fired and aborted its
\* controller, the error shown stays the timeout error, with the detail of
\* type timeout, while the run unwinds and after it.
C16_TimeoutErrorStays ==
    Cancelled(runId) => error = TimedOut /\ detailedError = "timeout"

\* C17 (as claimed): no upload chunk waits or fails for want of a buffer:
\* each failure counted for it is the failure of a request it has sent.
C17_NoUploadStarved ==
    \A ch \in ChunksOf("upload") :
        ch.st # "starved" /\ ch.failures <= ch.issued

\* byte offsets into a chunk: the first two words, the last word before
\* the offset wraps at 0x10000, the first after it, and the last byte
Offsets == {0, 1, 2, 3, 4, 5, 6, 7, 65532, 65535, 65536, 65539, 4194303}

SameBytes(a, b) ==
    a.size = b.size /\ \A o \in Offsets : ByteAt(a, o) = ByteAt(b, o)

\* C18: every GET of /api/speedtest/[id] answers with a body of exactly
\* 4,194,304 bytes, and a later GET with the same id answers with the same
\* bytes as the first one.
C18_SameIdSameBytes ==
    \A id \in Ids :
        gets[id] > 0 =>
            /\ firstBody[id].size = 4194304
            /\ lastBody[id].size = 4194304
            /\ SameBytes(firstBody[id], lastBody[id])

\* "abc-5" was requested twice, the ids "abc-37" and "x-5" of the same
\* cache key before and between
C18_Witness ==
    /\ gets[<<"a", "b", "c", "-", "5">>] = 2
    /\ gets[<<"a", "b", "c", "-", "3", "7">>] = 2
    /\ gets[<<"x", "-", "5">>] = 1
    /\ ByteAt(firstBody[<<"a", "b", "c", "-", "5">>], 0) = 37
    /\ ByteAt(lastBody[<<"a", "b", "c", "-", "5">>], 4194303) = 0

\* C19 (as claimed): the body served for an id is the pattern made from the
\* number of that id, whatever was requested before.
C19_BodyIsPatternOfId ==
    \A id \in Ids :
        gets[id] > 0 =>
            SameBytes(lastBody[id],
                      [size |-> CHUNK_SIZE, pattern |-> Pattern(IdNumber(id))])

\* C20 (as claimed): a POST with well-formed headers whose body delivers
\* more bytes than its Content-Length declares is answered with the size
\* mismatch error.
C20_OversizeBodyRejected ==
    posted.valid /\ posted.size > 0 /\ posted.delivered > posted.size =>
        posted.status = 400 /\ posted.error = MismatchError

\* the chunk size a route is configured with
ChunkSizeOf(route) == IF route = "speedtest" THEN CHUNK_SIZE ELSE UPLOAD_CHUNK_SIZE

\* C21: a POST without Content-Length or without x-chunk-id, or one whose
\* declared length is more than twice the chunk size of its route, is
\* answered 400 and no byte of its body has been read.
C21_BadHeadersRejectedUnread ==
    (/\ posted.route # "none"
     /\ \/ posted.contentLength = Null
        \/ posted.chunkId = Null
        \/ parseIntOf(posted.contentLength) > 2 * ChunkSizeOf(posted.route))
    => posted.status = 400 /\ posted.bytesRead = 0

\* a body was sent with a declared length of 90,000,000 and was refused
C21_Witness ==
    /\ posted.route = "speedtest"
    /\ posted.chunkId # Null
    /\ parseIntOf(posted.contentLength) = 90000000
    /\ posted.delivered > 0
    /\ posted.status = 400
    /\ posted.bytesRead = 0

\* C22 (as claimed): a POST with a body of the declared length whose 30 s
\* timer fires before the whole body has been received is not answered with
\* success.
C22_TimedOutPostFails ==
    (/\ posted.valid
     /\ posted.delivered = posted.size
     /\ posted.aborted
     /\ posted.bytesRead < posted.delivered)
    => posted.status # 200

\* C23: the step that ends the live stream (done, or a rejected read), and
\* the arrival of an error message, leave every hop record as it is: the
\* array holds the same rows, in the same order, after the step.
C23_StreamEndKeepsRows ==
    [][(session'.stream # session.stream
        \/ session'.errorMessages # session.errorMessages)
       => mtrDataArray' = mtrDataArray]_vars

\* a session that failed in transport after an error message, with the
\* records of two hops and a sample
C23_Witness ==
    /\ session.stream = "closed"
    /\ session.error = NetworkError
    /\ session.errorMessages = 1
    /\ Len(mtrDataArray) = 2
    /\ \E i \in 1..Len(mtrDataArray) : Len(mtrDataArray[i].ReceivedPackets) = 1

\* a row as createDefaultMtrRow makes it, after at most one event
FromDefault(r) ==
    /\ Len(r.SentPackets) + Len(r.ReceivedPackets) <= 1
    /\ Len(r.Pings) = Len(r.ReceivedPackets)
    /\ Len(r.Pings) = 0 =>
          /\ r.Last = Infinity /\ r.Best = Infinity /\ r.Worst = -Infinity
          /\ r.Avg = 0 /\ r.StDev = 0
    /\ r.LossPercent = 0
    /\ r.Host = NA => r.ASN = NA /\ r.Prefix = NA /\ ~r.isHidden
    /\ r.Host # NA => Len(r.SentPackets) + Len(r.ReceivedPackets) = 0

\* C24: in whatever order lines name the hops, the array never holds two
\* rows of one hop, the sorted rows given to the table are the same rows in
\* strictly increasing hop number, and the row of a hop that had none is
\* the default row with the sentinels, changed by that one event only.
C24_HopRecordsLazyUniqueSorted ==
    /\ [](/\ \A i, j \in 1..Len(mtrDataArray) :
                i # j => mtrDataArray[i].Hop # mtrDataArray[j].Hop
          /\ Len(sortedMtrData) = Len(mtrDataArray)
          /\ {sortedMtrData[i] : i \in 1..Len(sortedMtrData)} = Rows
          /\ \A i \in 1..(Len(sortedMtrData) - 1) :
                sortedMtrData[i].Hop < sortedMtrData[i + 1].Hop)
    /\ [][\A h \in AllHops :
            (h \notin HopsOf(mtrDataArray) /\ h \in HopsOf(mtrDataArray'))
            => FromDefault(RowOf(mtrDataArray', h))]_vars

\* the record of hop 1 was created before that of hop 0, and the table has
\* hop 0 first
C24_Witness ==
    /\ Len(mtrDataArray) = 2
    /\ mtrDataArray[1].Hop = 1
    /\ mtrDataArray[2].Hop = 0
    /\ sortedMtrData[1].Hop = 0
    /\ Len(mtrDataArray[2].SentPackets) = 1

\* C25: system_info is on the stream only as its first message and only
\* for the command livemtr, whose stream never starts with anything else;
\* once the stream is closed no enqueue is tried and its messages stay.
C25_SystemInfoFirstNothingAfterClose ==
    /\ [](/\ \A i \in 1..Len(cmd.stream) :
                cmd.stream[i] = "system_info" => i = 1 /\ cmd.command = "livemtr"
          /\ (cmd.command = "livemtr" /\ cmd.stream # <<>>)
                => cmd.stream[1] = "system_info"
          /\ ~cmd.threw)
    /\ [][cmd.closed => cmd'.stream = cmd.stream /\ cmd'.closed]_vars

\* a live session that sent output and errors after system_info and ended
\* with a non-zero exit code
C25_Witness ==
    /\ cmd.command = "livemtr"
    /\ cmd.closed
    /\ cmd.child = "closed"
    /\ Len(cmd.stream) = MaxMessages + 1
    /\ cmd.stream[1] = "system_info"
    /\ cmd.stream[2] = "output"
    /\ cmd.stream[Len(cmd.stream)] = "error"

\* the line is one the parser takes: an h line with a host, a p line with a
\* latency above 0 and a sequence number, an x line with a sequence number,
\* each with a hop that is a non-negative integer
Accepts(line) ==
    /\ HasHop(line)
    /\ \/ line.type = "h" /\ Len(line.parts) >= 2
       \/ /\ line.type = "p" /\ Len(line.parts) >= 3
          /\ ~isNaN(parseFloat(line.parts[2])) /\ parseFloat(line.parts[2]) > 0
          /\ ~isNaN(parseInt(line.parts[3]))
       \/ /\ line.type = "x" /\ Len(line.parts) >= 2
          /\ ~isNaN(parseInt(line.parts[2]))

\* C26 (as claimed): a line the parser does not take leaves the rows as they
\* are: no row is added and no field of a row changes.
C26_DroppedLineChangesNothing ==
    [][\A line \in Lines :
          (~Accepts(line) /\ ParseLine(line)) => mtrDataArray' = mtrDataArray]_vars

\* the rtt token of a p line is a positive finite number and its sequence
\* token is an integer
PositiveFiniteRtt(line) ==
    /\ Len(line.parts) >= 3
    /\ line.parts[2].k = "num" /\ line.parts[2].v > 0
    /\ line.parts[3].k = "num" /\ line.parts[3].v % 80 = 0

\* what a p event may change of a row
SampleFields(r) ==
    <<r.ReceivedPackets, r.Pings, r.Last, r.Avg, r.Best, r.Worst, r.StDev>>

\* C27 (as claimed): a p line whose rtt token is not a positive finite
\* number, or whose sequence token is not an integer, leaves the received
\* sequence numbers, the latency window and the statistics of its hop as
\* they are.
C27_BadSampleIgnored ==
    [][\A line \in Lines :
          (/\ line.type = "p" /\ HasHop(line)
           /\ ~PositiveFiniteRtt(line)
           /\ ParseLine(line))
          => SampleFields(RowOf(mtrDataArray', HopOfLine(line)))
               = SampleFields(RowOf(mtrDataArray, HopOfLine(line)))]_vars

\* the samples of a hop that are in its latency window and count for the
\* statistics: of the last MAX_PACKETS accepted ones, those that are
\* positive and finite
WindowSamples(hop) ==
    LET a == accepted[hop]
        n == Len(a)
        k == Min(MAX_PACKETS, n)
    IN SelectSeq(SubSeq(a, n - k + 1, n), IsValidPing)

C29_LossRecomputedAtBatch ==
    [][\A line \in LossLines :
          (/\ line.type = "x"
           /\ ~DuplicateSeq(line, mtrDataArray)
           /\ ParseLine(line))
          => LET hop == HopOfLine(line)
                 before == RowOf(mtrDataArray, hop)
                 after == RowOf(mtrDataArray', hop)
             IN IF Len(after.SentPackets) % LOSS_BATCH = 0
                THEN \/ after.LossPercent =
                          LossFormula(Len(after.SentPackets),
                                      Len(after.ReceivedPackets))
                     \/ hop \in q1' \cup rp'
                ELSE after.LossPercent = before.LossPercent]_vars

\* the chunk createChunk makes for an id
Generated(id) == [size |-> CHUNK_SIZE, pattern |-> Pattern(IdNumber(id))]

\* the cache with a chunk put in a slot
Stored(cache, key, chunk) ==
    [k \in DOMAIN cache \cup {key} |-> IF k = key THEN chunk ELSE cache[k]]

C31_CacheBoundedFirstWriteWins ==
    /\ [](Cardinality(DOMAIN chunkCache) <= MAX_CHUNK_CACHE_SIZE)
    /\ [][\A k \in DOMAIN chunkCache :
             k \in DOMAIN chunkCache' /\ chunkCache'[k] = chunkCache[k]]_vars

\* n-32 and n-0 were queued together, n-32 first: slot 0 holds the chunk of
\* n-32, n-0 was answered with it, and the cache has its 32 entries while a
\* call for one more slot has run
C31_Witness ==
    /\ microtasks = <<>>
    /\ gets[FillId(0)] = 1 /\ gets[FillId(32)] = 1
    /\ chunkCache[0] = Generated(FillId(32))
    /\ lastBody[FillId(0)] = Generated(FillId(32))
    /\ Cardinality(DOMAIN chunkCache) = MAX_CHUNK_CACHE_SIZE
    /\ gets[NaNId] > 0 /\ gets[FillId(31)] > 0

\* the part of the id after its first hyphen is absent or is no integer
NoIndex(id) ==
    LET part == SplitSecond(id, "-")
    IN part = Null \/ parseIntOf(part) = NaN

\* C32 (as claimed): a GET whose id has no part after its first hyphen, or
\* one that does not parse as an integer, is served exactly as a request of
\* index 0: it is answered with the chunk a request of index 0 would get,
\* and it leaves the cache as that request would.
C32_NoIndexServedAsZero ==
    [][\A id \in DOMAIN gets :
          gets'[id] = gets[id] + 1 /\ NoIndex(id) =>
            LET r == createChunk(chunkCache, 0, CHUNK_SIZE)
            IN lastBody'[id] = r.chunk /\ chunkCache' = r.cache]_vars

\* the chunks of a phase whose request has answered with success
Completed(cs) == {i \in DOMAIN cs : cs[i].st = "done"}

\* C33: the byte total of a phase is the number of its completed chunks
\* times CHUNK_SIZE, and the completed chunks are counted one each: those,
\* and only those, whose request succeeded, however often it was retried.
C33_BytesAreCompletedTimesChunkSize ==
    \A ph \in Phases :
        /\ totalBytes[ph] = completedChunks[ph] * CHUNK_SIZE
        /\ completedChunks[ph] = Cardinality(Completed(chunks[ph]))

\* an upload chunk succeeded at its third attempt, after the other one, and
\* is counted once: both phases have their full byte totals
C33_Witness ==
    /\ chunks["upload"] # <<>>
    /\ chunks["upload"][1].st = "done"
    /\ chunks["upload"][1].failures = 2
    /\ completedChunks["upload"] = 2
    /\ totalBytes["upload"] = 2 * CHUNK_SIZE
    /\ totalBytes["download"] = 4 * CHUNK_SIZE

\* C34: when every request settles, a phase that runs comes to its end,
\* resolved or rejected; it resolves only with its queue and its set of
\* active promises both empty; and while it runs it never awaits with no
\* promise active.
C34_PhaseTerminates ==
    /\ \A ph \in Phases :
          (phaseResult[ph] = "running") ~>
              (phaseResult[ph] \in {"resolved", "rejected"})
    /\ [](\A ph \in Phases :
            /\ phaseResult[ph] = "resolved" =>
                  /\ chunkQueue[ph] = <<>>
                  /\ activePromises[ph] = {}
            /\ phaseResult[ph] = "running" => activePromises[ph] # {})

\* the download phase resolved after one of its chunks was retried, and the
\* upload phase rejected when a chunk of it had failed four times
C34_Witness ==
    /\ phaseResult["download"] = "resolved"
    /\ phaseResult["upload"] = "rejected"
    /\ chunks["upload"][1].failures = 4
    /\ chunks["upload"][2].st = "done"

\* an IPv4 address of 10.0.0.0/8, 172.16.0.0/12, 192.168.0.0/16,
\* 127.0.0.0/8 or 169.254.0.0/16
PrivateIPv4(host) ==
    LET o == SplitDots(host)
    IN /\ Len(o) = 4
       /\ o[4] # Empty
       /\ \/ o[1] \in {10, 127}
          \/ o[1] = 172 /\ o[2] \in 16..31
          \/ o[1] = 192 /\ o[2] = 168
          \/ o[1] = 169 /\ o[2] = 254

\* C35 (as claimed): an h line whose host is a private address starts no
\* lookup, and the asn and the prefix of its hop stay as they were.
C35_NoLookupForPrivateHost ==
    [][\A line \in HostLines :
          (/\ line.type = "h"
           /\ PrivateIPv4(line.parts[2].s)
           /\ ParseLine(line))
          => LET hop == HopOfLine(line)
             IN /\ fetches' = fetches
                /\ RowOf(mtrDataArray', hop).ASN = RowOf(mtrDataArray, hop).ASN
                /\ RowOf(mtrDataArray', hop).Prefix =
                       RowOf(mtrDataArray, hop).Prefix]_vars

\* C36: a phase that has resolved with a speed has completed every one of
\* its chunks: all TOTAL_CHUNKS of them succeeded, completedChunks is their
\* number and the byte total is that number times CHUNK_SIZE.
C36_ResolvedMeansAllChunksDone ==
    \A ph \in Phases :
        phaseResult[ph] = "resolved" =>
            LET n == TOTAL_CHUNKS(TEST_SIZES[testSize][ph])
            IN /\ Len(chunks[ph]) = n
               /\ \A i \in 1..n : chunks[ph][i].st = "done"
               /\ completedChunks[ph] = n
               /\ totalBytes[ph] = n * CHUNK_SIZE

\* the download phase resolved although its chunk 2 had failed three times
\* before it succeeded, after the chunks 3 and 0 and before chunk 1
C36_Witness ==
    /\ phaseResult["download"] = "resolved"
    /\ chunks["download"][3].failures = 3
    /\ completedChunks["download"] = 4
    /\ phaseResult["upload"] = "running"
    /\ completedChunks["upload"] = 0

\* C37 (as claimed): in every state the asn and the prefix of a hop are
\* both the N/A sentinel, or they are the answer of the lookup service for
\* the host the hop has now.
C37_AsnBelongsToCurrentHost ==
    \A i \in DOMAIN mtrDataArray :
        LET row == mtrDataArray[i]
        IN \/ row.ASN = NA /\ row.Prefix = NA
           \/ /\ row.Host \in Hosts
              /\ row.ASN = DnsAnswer(row.Host).asn
              /\ row.Prefix = DnsAnswer(row.Host).prefix

\* what a line writes of its row
LineFields(r) ==
    <<r.Host, r.SentPackets, r.ReceivedPackets, r.Pings, r.Last, r.Best,
      r.Worst, r.Avg, r.StDev>>

\* C38 (as claimed): a line that came cut into two messages is applied once
\* as the whole line: when its second piece has been applied, the row of its
\* hop is what the whole line makes of the row there was before the first
\* piece, and no record of another hop has been created.
C38_CutLineAppliedAsWhole ==
    [][cut.state = "rest" /\ cut'.state = "applied" =>
         LET whole == LineOf(cut.head \o cut.rest)
             hop == HopOfLine(whole)
             expected == Dispatch(whole, RowOf(cut.rows, hop),
                                  PrevHost(cut.rows, hop), asnCache).row
         IN /\ LineFields(RowOf(mtrDataArray', hop)) = LineFields(expected)
            /\ HopsOf(mtrDataArray') \subseteq HopsOf(cut.rows) \cup {hop}]_vars


\* the handlers of the upload chunks: <<0, i>> of the running call,
\* <<1, i>> of the earlier one
UploadHandlers ==
    ({0} \X DOMAIN chunks["upload"]) \cup ({1} \X DOMAIN previous.chunks["upload"])

HandlerOf(h) ==
    IF h[1] = 0 THEN chunks["upload"][h[2]] ELSE previous.chunks["upload"][h[2]]

\* C39: no upload buffer is held by two upload transfers at once, none is in
\* the pool while a frame of a handler still holds it, none is in the pool
\* twice, and every upload request that is out has a buffer of its own; this
\* holds when requests fail and are retried.
C39_BufferOfOneTransferAtATime ==
    /\ \A h \in UploadHandlers :
           HandlerOf(h).st = "fetch" => HandlerOf(h).bufs # <<>>
    /\ \A h \in UploadHandlers :
           HandlerOf(h).st \in {"queued", "done", "failed"}
               => HandlerOf(h).bufs = <<>>
    /\ \A h, k \in UploadHandlers :
           \A m \in DOMAIN HandlerOf(h).bufs, n \in DOMAIN HandlerOf(k).bufs :
               (h # k \/ m # n) => HandlerOf(h).bufs[m] # HandlerOf(k).bufs[n]
    /\ \A h \in UploadHandlers :
           Elements(HandlerOf(h).bufs) \cap Elements(chunkPool) = {}
    /\ \A a, b \in DOMAIN chunkPool : a # b => chunkPool[a] # chunkPool[b]

\* C39 witness: a retried upload request is out with the buffer its second
\* frame took, the first frame's buffer is back in the pool, and another
\* upload request is out at the same time.
C39_Witness ==
    \E i, j \in DOMAIN chunks["upload"] :
        /\ i # j
        /\ chunks["upload"][i].st = "fetch"
        /\ chunks["upload"][i].retryCount >= 1
        /\ Len(chunks["upload"][i].bufs) = 1
        /\ chunks["upload"][j].st = "fetch"
        /\ chunkPool # <<>>
        /\ Len(chunkPool) < UPLOAD_CHUNK_POOL_SIZE


\* C40: in the timed test a download chunk that arrives while the upload
\* phase runs adds nothing to the byte count the upload phase reports: the
\* step in which its request answers leaves testMetrics as it was.
C40_LateDownloadNotCredited ==
    [][\A c \in ChunkIds :
          (/\ phaseResult["upload"] = "running"
           /\ HasChunk("download", c)
           /\ chunks["download"][c + 1].st = "fetch"
           /\ chunks'["download"][c + 1].st = "done")
          => testMetrics' = testMetrics]_vars

====
